---- MODULE Spec2Model ----
(***************************************************************************)
(* Daily sales report generator (src/src/screens/test.tsx).                *)
(*                                                                         *)
(* Text is modelled exactly: a JavaScript string is the sequence of its    *)
(* UTF-16 code units (all text used here lies in the Basic Multilingual    *)
(* Plane, so a code unit is a code point).  Every literal of the source is *)
(* written as the tuple of its code points, with the text in a comment.    *)
(* Numbers are integers: the inputs enumerated below hold no decimal       *)
(* point, so no fractional value arises.                                   *)
(***************************************************************************)
EXTENDS Integers, Sequences, FiniteSets, TLC

(***************************************************************************)
(* Generic helpers                                                         *)
(***************************************************************************)
Max(S) == CHOOSE x \in S : \A y \in S : y <= x
Min(S) == CHOOSE x \in S : \A y \in S : x <= y
\* the least / greatest member of a set of positions, 0 when it is empty
MinOr0(S) == IF S = {} THEN 0 ELSE Min(S)
MaxOr0(S) == IF S = {} THEN 0 ELSE Max(S)
Range(f) == {f[i] : i \in DOMAIN f}

RECURSIVE SumSeq(_)
SumSeq(q) == IF q = <<>> THEN 0 ELSE Head(q) + SumSeq(Tail(q))

RECURSIVE Flatten(_)
Flatten(qq) == IF qq = <<>> THEN <<>> ELSE Head(qq) \o Flatten(Tail(qq))

\* The subsequence of q at the positions satisfying Keep (order kept).
RECURSIVE FilterIdx(_, _, _)
FilterIdx(q, Keep(_), i) ==
  IF i > Len(q) THEN <<>>
  ELSE (IF Keep(i) THEN <<q[i]>> ELSE <<>>) \o FilterIdx(q, Keep, i + 1)

(***************************************************************************)
(* Characters                                                              *)
(***************************************************************************)
\* ECMAScript WhiteSpace and LineTerminator in the Basic Multilingual
\* Plane: what String.prototype.trim strips and what \s matches.
LineTerminators == {10, 13, 8232, 8233}
WhiteSpace ==
  {9, 11, 12, 32, 160, 5760, 8239, 8287, 12288, 65279} \cup (8192..8202)
    \cup LineTerminators
Digits == 48..57
\* \w of a regular expression without the u flag: [A-Za-z0-9_]
WordChars == (65..90) \cup (97..122) \cup Digits \cup {95}

\* String.prototype.toLowerCase on one code unit.  Of the characters used
\* here only the Latin capitals (ASCII and full-width) have a lower case.
LowerChar(c) ==
  IF c \in 65..90 THEN c + 32
  ELSE IF c \in 65313..65338 THEN c + 32
  ELSE c
Lower(s) == [i \in 1..Len(s) |-> LowerChar(s[i])]

\* String.prototype.trim
RECURSIVE TrimLeft(_)
TrimLeft(s) ==
  IF s # <<>> /\ Head(s) \in WhiteSpace THEN TrimLeft(Tail(s)) ELSE s
RECURSIVE TrimRight(_)
TrimRight(s) ==
  IF s # <<>> /\ s[Len(s)] \in WhiteSpace
  THEN TrimRight(SubSeq(s, 1, Len(s) - 1)) ELSE s
Trim(s) == TrimRight(TrimLeft(s))

\* s.replace(/[,\s]/g, '') and the like: drop every character of the set.
DropChars(s, set) == FilterIdx(s, LAMBDA i : s[i] \notin set, 1)

(***************************************************************************)
(* Decimal numerals: Number(digits) and String(n)                          *)
(***************************************************************************)
RECURSIVE DigitsToNat(_)
DigitsToNat(d) ==
  IF d = <<>> THEN 0
  ELSE DigitsToNat(SubSeq(d, 1, Len(d) - 1)) * 10 + (d[Len(d)] - 48)

RECURSIVE NatToDigits(_)
NatToDigits(n) ==
  IF n < 10 THEN <<48 + n>> ELSE NatToDigits(n \div 10) \o <<48 + (n % 10)>>

\* String(n) / template interpolation of an integer
NumToStr(n) == IF n < 0 THEN <<45>> \o NatToDigits(-n) ELSE NatToDigits(n)

(***************************************************************************)
(* Regular expressions.  A pattern is a tree; Ends(re, s, i) is the set of *)
(* positions at which a match of re starting at position i of s can end    *)
(* (positions are 1-based; Len(s) + 1 is the end of the input).            *)
(***************************************************************************)
Lit(w) == [t |-> "lit", w |-> w]
Cls(set) == [t |-> "cls", set |-> set]
AnyChar == [t |-> "any"]
Cat(parts) == [t |-> "cat", parts |-> parts]
Alt(alts) == [t |-> "alt", alts |-> alts]
Star(r) == [t |-> "star", r |-> r]
Plus(r) == Cat(<<r, Star(r)>>)
Opt(r) == Alt(<<r, Cat(<<>>)>>)
Rep(r, lo, hi) == [t |-> "rep", r |-> r, lo |-> lo, hi |-> hi]
Bol == [t |-> "bol"]
Eol == [t |-> "eol"]
WordB == [t |-> "wordb"]

IsWordAt(s, i) == i >= 1 /\ i <= Len(s) /\ s[i] \in WordChars

RECURSIVE Ends(_, _, _)
RECURSIVE CatEnds(_, _, _, _)
RECURSIVE StarEnds(_, _, _, _)
RECURSIVE StarGrow(_, _, _, _)
RECURSIVE RepEnds(_, _, _, _, _, _)
Ends(re, s, i) ==
  CASE re.t = "lit" ->
         IF /\ i + Len(re.w) - 1 <= Len(s)
            /\ \A k \in 1..Len(re.w) : s[i + k - 1] = re.w[k]
         THEN {i + Len(re.w)} ELSE {}
    [] re.t = "cls" -> IF i <= Len(s) /\ s[i] \in re.set THEN {i + 1} ELSE {}
    [] re.t = "any" ->
         IF i <= Len(s) /\ s[i] \notin LineTerminators THEN {i + 1} ELSE {}
    [] re.t = "cat" -> CatEnds(re.parts, 1, s, {i})
    [] re.t = "alt" -> UNION {Ends(re.alts[k], s, i) : k \in 1..Len(re.alts)}
    [] re.t = "star" -> StarEnds(re.r, s, {i}, {i})
    [] re.t = "rep" -> RepEnds(re.r, re.lo, re.hi, s, {i}, 0)
    [] re.t = "bol" -> IF i = 1 THEN {i} ELSE {}
    [] re.t = "eol" -> IF i = Len(s) + 1 THEN {i} ELSE {}
    [] re.t = "wordb" ->
         IF IsWordAt(s, i - 1) # IsWordAt(s, i) THEN {i} ELSE {}
CatEnds(parts, k, s, from) ==
  IF k > Len(parts) \/ from = {} THEN from
  ELSE CatEnds(parts, k + 1, s, UNION {Ends(parts[k], s, j) : j \in from})
StarEnds(r, s, seen, frontier) ==
  StarGrow(r, s, seen, UNION {Ends(r, s, j) : j \in frontier} \ seen)
StarGrow(r, s, seen, next) ==
  IF next = {} THEN seen ELSE StarEnds(r, s, seen \cup next, next)
RepEnds(r, lo, hi, s, from, n) ==
  IF from = {} \/ n = hi THEN (IF n >= lo THEN from ELSE {})
  ELSE (IF n >= lo THEN from ELSE {})
         \cup RepEnds(r, lo, hi, s, UNION {Ends(r, s, j) : j \in from}, n + 1)

\* RegExp.prototype.test.  With the i flag the pattern's literals are
\* written in lower case and the input is lower-cased (for the characters
\* used here this is the case-insensitive comparison of the engine).
Starts(re, s) == {i \in 1..(Len(s) + 1) : Ends(re, s, i) # {}}
Test(re, s) == Starts(re, s) # {}
TestI(re, s) == Test(re, Lower(s))

\* String.prototype.match without the g flag: the leftmost match, as
\* [from, to) positions, or None.  For the patterns matched this way (one
\* greedy run, optionally followed by a greedy optional group) the
\* backtracking engine's match is the longest one at the leftmost start.
NoMatch == [from |-> 0, to |-> 0]
MatchAt(re, s, i) ==
  IF i = 0 THEN NoMatch ELSE [from |-> i, to |-> Max(Ends(re, s, i))]
Match(re, s) == MatchAt(re, s, MinOr0(Starts(re, s)))
Matched(m, s) == SubSeq(s, m.from, m.to - 1)
\* m?.[0], <<>> standing for undefined
MatchedOrNone(m, s) == IF m = NoMatch THEN <<>> ELSE Matched(m, s)

(***************************************************************************)
(* Constants of the source.  A ramen key is named here by its reading:     *)
(* hana, tsuki, yuki, gekka, setsugetsu, setsugekka, hanacoffret,          *)
(* curryramen, hyouka stand for the nine keys of RAMEN_KEYS in that order. *)
(***************************************************************************)
RAMEN_KEYS ==
  <<"hana", "tsuki", "yuki", "gekka", "setsugetsu", "setsugekka",
    "hanacoffret", "curryramen", "hyouka">>
RamenKeySet == Range(RAMEN_KEYS)
\* hana | tsuki (lunch) | yuki (lunch) | gekka | setsugetsu | setsugekka |
\* hana-coffret | curry ramen | hyouka
RAMEN_LABELS ==
  [hana |-> <<33457>>, tsuki |-> <<26376, 65288, 12521, 12531, 12481, 65289>>, yuki |-> <<38634, 65288, 12521, 12531, 12481, 65289>>,
   gekka |-> <<26376, 33457>>, setsugetsu |-> <<38634, 26376>>, setsugekka |-> <<38634, 26376, 33457>>,
   hanacoffret |-> <<33457, 12371, 12405, 12428>>, curryramen |-> <<12459, 12524, 12540, 12521, 12540, 12513, 12531>>,
   hyouka |-> <<27703, 33457>>]
RAMEN_DISPLAY_ORDER ==
  <<"yuki", "tsuki", "hana", "gekka", "setsugetsu", "setsugekka",
    "hanacoffret", "curryramen", "hyouka">>
SET_ALLOWED_KEYS == <<"hana", "gekka", "setsugetsu">>

PAYMENT_KEY_ORDER == <<"total", "card", "tablecheck", "paypay", "cash", "funfo">>
PaymentKeySet == Range(PAYMENT_KEY_ORDER)
\* uriage (sales) | credit / IC (Square) | Table check | PayPay | genkin
\* (cash) | Funfo
PAYMENT_LABELS ==
  [total |-> <<22770, 19978>>, card |-> <<12463, 12524, 12472, 12483, 12488, 12539, 73, 67, 65288, 83, 113, 117, 97, 114, 101, 65289>>,
   tablecheck |-> <<84, 97, 98, 108, 101, 32, 99, 104, 101, 99, 107>>, paypay |-> <<80, 97, 121, 80, 97, 121>>, cash |-> <<29694, 37329>>,
   funfo |-> <<70, 117, 110, 102, 111>>]
\* total: five spellings of "sales, tax included"
PAYMENT_ALIASES ==
  [total |-> <<<<22770, 19978, 39640, 65288, 31246, 36796, 12415, 65289>>, <<22770, 19978, 39640, 32, 40, 31246, 36796, 12415, 41>>, <<22770, 19978, 39640, 32, 40, 31246, 36796, 41>>,
               <<31246, 36796, 12415, 22770, 19978, 39640>>, <<31246, 36796, 22770, 19978>>>>,
   card |-> <<<<83, 113, 117, 97, 114, 101>>, <<115, 113, 117, 97, 114, 101>>, <<12463, 12524, 12472, 12483, 12488, 12539, 73, 67>>,
              <<12463, 12524, 12472, 12483, 12488, 12539, 73, 67, 65288, 83, 113, 117, 97, 114, 101, 65289>>, <<12463, 12524, 12472, 12483, 12488, 65381, 73, 67>>>>,
   tablecheck |-> <<<<84, 97, 98, 108, 101, 32, 99, 104, 101, 99, 107>>, <<84, 97, 98, 108, 101, 67, 104, 101, 99, 107>>, <<12486, 12540, 12502, 12523, 12481, 12455, 12483, 12463>>>>,
   paypay |-> <<<<80, 97, 121, 80, 97, 121>>, <<112, 97, 121, 112, 97, 121>>, <<80, 97, 121, 32, 80, 97, 121>>>>,
   cash |-> <<<<29694, 37329>>, <<99, 97, 115, 104>>, <<67, 97, 115, 104>>, <<67, 65, 83, 72>>>>,
   funfo |-> <<<<70, 117, 110, 102, 111>>, <<102, 110, 102, 111>>, <<70, 78, 70, 79>>, <<70, 110, 102, 111>>>>]
\* GROUP_CANDS: number of bills / groups; PEOPLE_CANDS: number of guests
GROUP_CANDS == <<<<20250, 35336, 25968>>, <<32068, 25968>>, <<103, 114, 111, 117, 112, 115>>, <<103, 114, 111, 117, 112, 32, 99, 111, 117, 110, 116>>>>
PEOPLE_CANDS == <<<<23458, 25968>>, <<26469, 23458, 25968>>, <<20154, 25968>>, <<99, 117, 115, 116, 111, 109, 101, 114, 115>>>>
EXTRA_PAYMENT_IGNORE == GROUP_CANDS \o PEOPLE_CANDS
\* The literal list of makeSummary: period, pre-discount sales, sales
\* without tax, untaxed sales, the tax lines, per-bill and per-guest
\* averages, quantity sold, and four discount headers.
IGNORE_LITERALS ==
  <<<<38598, 35336, 26399, 38291>>, <<21106, 24341, 21069, 32, 22770, 19978, 39640>>, <<22770, 19978, 39640, 65288, 31246, 25244, 12365, 65289>>, <<22770, 19978, 39640, 65288, 38750, 35506, 31246, 65289>>,
    <<20869, 28040, 36027, 31246, 65288, 21512, 35336, 65289>>, <<20869, 28040, 36027, 31246, 65288, 49, 48, 37, 27161, 28310, 65289>>, <<20869, 28040, 36027, 31246, 65288, 56, 37, 36605, 28187, 65289>>,
    <<22770, 19978, 39640, 65288, 49, 48, 37, 27161, 28310, 65289>>, <<22770, 19978, 39640, 65288, 56, 37, 36605, 28187, 65289>>, <<20250, 35336, 21336, 20385>>, <<23458, 21336, 20385>>,
    <<21830, 21697, 36009, 22770, 25968>>, <<21106, 24341, 21512, 35336, 95, 49>>, <<20250, 35336, 21106, 24341>>, <<21106, 24341, 21512, 35336>>, <<21106, 24341>>>>

\* product name / quantity / category headers
PRODUCT_NAME_CANDS ==
  <<<<21830, 21697, 21517>>, <<21697, 21517>>, <<12513, 12491, 12517, 12540>>, <<21830, 21697>>, <<73, 116, 101, 109, 32, 78, 97, 109, 101>>, <<105, 116, 101, 109>>, <<110, 97, 109, 101>>>>
PRODUCT_QTY_CANDS ==
  <<<<21830, 21697, 36009, 22770, 25968>>, <<36009, 22770, 25968>>, <<25968, 37327>>, <<20491, 25968>>, <<81, 117, 97, 110, 116, 105, 116, 121>>, <<81, 116, 121>>>>
PRODUCT_CATEGORY_CANDS == <<<<12459, 12486, 12468, 12522>>, <<12459, 12486, 12468, 12522, 12540>>, <<99, 97, 116, 101, 103, 111, 114, 121>>, <<67, 97, 116, 101, 103, 111, 114, 121>>>>

\* /(dinner-in-katakana|dinner)/i
DINNER_PATTERN == Alt(<<Lit(<<12487, 12451, 12490, 12540>>), Lit(<<100, 105, 110, 110, 101, 114>>)>>)
\* /kurafan/i (crowdfunding)
CROWDFUND_PATTERN == Lit(<<12463, 12521, 12501, 12449, 12531>>)
\* /(\d+)mei/ : N people
NAME_PEOPLE_DIGITS == Plus(Cls(Digits))
NAME_PEOPLE_PATTERN == Cat(<<NAME_PEOPLE_DIGITS, Lit(<<21517>>)>>)
\* /(\d{4,5})/
PRICE_PATTERN == Rep(Cls(Digits), 4, 5)
\* /ramen.*(?:[|[[)?hana(?:]|]])?\s*or\s*(?:[|[[)?gekka(?:]|]])?.*set/i
\* with the corner brackets and the katakana words of the source
FORCE_AMBIG_SET_HANA_GEKKA ==
  Cat(<<Lit(<<12521, 12540, 12513, 12531>>), Star(AnyChar),
        Opt(Alt(<<Lit(<<12300>>), Lit(<<12302>>)>>)), Lit(<<33457>>),
        Opt(Alt(<<Lit(<<12301>>), Lit(<<12303>>)>>)),
        Star(Cls(WhiteSpace)), Lit(<<111, 114>>), Star(Cls(WhiteSpace)),
        Opt(Alt(<<Lit(<<12300>>), Lit(<<12302>>)>>)), Lit(<<26376, 33457>>),
        Opt(Alt(<<Lit(<<12301>>), Lit(<<12303>>)>>)),
        Star(AnyChar), Lit(<<12475, 12483, 12488>>)>>)
\* /gekka.*course/i : the only excluded product pattern
EXCLUDED_PRODUCT_REGEXPS ==
  <<Cat(<<Lit(<<26376, 33457>>), Star(AnyChar), Lit(<<12467, 12540, 12473>>)>>)>>

(***************************************************************************)
(* Cells and rows.  A cell is null/undefined, a number or a string; a row  *)
(* is the sequence of its (key, value) columns in Object.keys order.       *)
(***************************************************************************)
Null == [t |-> "null", n |-> 0, s |-> <<>>]
Num(n) == [t |-> "num", n |-> n, s |-> <<>>]
Str(s) == [t |-> "str", n |-> 0, s |-> s]
Col(key, val) == [key |-> key, val |-> val]

\* String(v ?? '')
CellText(v) ==
  IF v.t = "null" THEN <<>> ELSE IF v.t = "num" THEN NumToStr(v.n) ELSE v.s

\* norm: NBSP to space, trim, lower case
norm(s) ==
  Lower(Trim([i \in 1..Len(s) |-> IF s[i] = 160 THEN 32 ELSE s[i]]))

\* /-?\d+(\.\d+)?/
NUMERIC_PATTERN ==
  Cat(<<Opt(Lit(<<45>>)), Plus(Cls(Digits)),
        Opt(Cat(<<Lit(<<46>>), Plus(Cls(Digits))>>))>>)
\* Number(m[0]) of a match without a fraction
SignedToInt(txt) ==
  IF txt[1] = 45 THEN -DigitsToNat(Tail(txt)) ELSE DigitsToNat(txt)
NumberOfMatch(m, s) == IF m = NoMatch THEN 0 ELSE SignedToInt(Matched(m, s))
NumberIn(s) == NumberOfMatch(Match(NUMERIC_PATTERN, s), s)
toNum(v) ==
  IF v.t = "null" THEN 0
  ELSE IF v.t = "num" THEN v.n
  ELSE NumberIn(DropChars(v.s, {44} \cup WhiteSpace))

\* keys.find(k => norm(k) === norm(cand)): the position of the first such
\* column, 0 when there is none (an empty key is falsy and never a hit)
FindNormKey(row, normCand) ==
  MinOr0({i \in 1..Len(row) : norm(row[i].key) = normCand /\ row[i].key # <<>>})
FindKey(row, cand) == FindNormKey(row, norm(cand))
\* the first member of q that is not 0, 0 when there is none
FirstNonZero(q) ==
  IF \A c \in 1..Len(q) : q[c] = 0 THEN 0
  ELSE q[Min({c \in 1..Len(q) : q[c] # 0})]
\* the column hit by the first candidate, in the candidates' order, that
\* some column matches
FirstHit(row, candidates) ==
  FirstNonZero([c \in 1..Len(candidates) |-> FindKey(row, candidates[c])])
NumAt(row, h) == IF h = 0 THEN 0 ELSE toNum(row[h].val)
TextAt(row, h) == IF h = 0 THEN <<>> ELSE CellText(row[h].val)
firstByCandidates(row, candidates) == NumAt(row, FirstHit(row, candidates))
firstKeyStr(row, candidates) == TextAt(row, FirstHit(row, candidates))

(***************************************************************************)
(* Ramen detection                                                         *)
(***************************************************************************)
\* /ramen-katakana|ramen-hiragana|men|ramen/i
isRamenish(name) ==
  TestI(Alt(<<Lit(<<12521, 12540, 12513, 12531>>), Lit(<<12425, 12540, 12417, 12435>>), Lit(<<40634>>), Lit(<<114, 97, 109, 101, 110>>)>>),
        name)
\* /yokubari.*curry/i
isYokubariCurry(name) ==
  TestI(Cat(<<Lit(<<12424, 12367, 12400, 12426>>), Star(AnyChar), Lit(<<12459, 12524, 12540>>)>>), name)
\* /(patty|half-width patty).*(curry|half-width curry)/i
isPattyCurry(name) ==
  TestI(Cat(<<Alt(<<Lit(<<12497, 12486, 12451>>), Lit(<<65418, 65439, 65411, 65384>>)>>), Star(AnyChar),
              Alt(<<Lit(<<12459, 12524, 12540>>), Lit(<<65398, 65434, 65392>>)>>)>>), name)

\* The nine tests of guessRamenKey in their order of evaluation.
GuessRules ==
  <<[key |-> "setsugekka", re |-> Alt(<<Lit(<<38634, 26376, 33457>>), Lit(<<115, 101, 116, 115, 117, 103, 101, 107, 107, 97>>)>>)],
    [key |-> "setsugetsu", re |-> Alt(<<Lit(<<38634, 26376>>), Lit(<<115, 101, 116, 115, 117, 103, 101, 116, 115, 117>>)>>)],
    [key |-> "gekka", re |-> Alt(<<Lit(<<26376, 33457>>), Lit(<<103, 101, 107, 107, 97>>)>>)],
    [key |-> "hyouka",
     re |-> Alt(<<Lit(<<27703, 33457>>), Lit(<<104, 121, 111, 117, 107, 97>>), Lit(<<104, 121, 111, 107, 97>>),
                  Cat(<<Lit(<<105, 99, 101>>), Star(Cls(WhiteSpace)), Lit(<<104, 97, 110, 97>>)>>)>>)],
    [key |-> "hanacoffret",
     re |-> Alt(<<Lit(<<33457, 12371, 12405, 12428>>),
                  Cat(<<Lit(<<104, 97, 110, 97>>), Star(Cls(WhiteSpace)), Lit(<<99, 111>>),
                        Plus(Lit(<<102>>)), Lit(<<114, 101, 116>>)>>),
                  Cat(<<Lit(<<104, 97, 110, 97>>), Star(Cls(WhiteSpace)),
                        Lit(<<99, 111, 102, 102, 114, 101, 116>>)>>)>>)],
    [key |-> "curryramen",
     re |-> Cat(<<Alt(<<Lit(<<12459, 12524, 12540>>), Lit(<<99, 117, 114, 114, 121>>)>>), Star(AnyChar),
                  Alt(<<Lit(<<12521, 12540, 12513, 12531>>), Lit(<<12425, 12540, 12417, 12435>>), Lit(<<114, 97, 109, 101, 110>>)>>)>>)],
    [key |-> "hana",
     re |-> Alt(<<Cat(<<Lit(<<35910, 20083, 12521, 12540, 12513, 12531>>), Opt(Lit(<<12300>>)), Lit(<<33457>>)>>),
                  Cat(<<Alt(<<Bol, Cls(WhiteSpace)>>), Lit(<<33457>>),
                        Alt(<<Lit(<<12301>>), Eol>>)>>),
                  Cat(<<WordB, Lit(<<104, 97, 110, 97>>), WordB>>)>>)],
    [key |-> "tsuki",
     re |-> Alt(<<Cat(<<Alt(<<Lit(<<12300>>), Bol, Cls(WhiteSpace)>>), Lit(<<26376>>),
                        Alt(<<Lit(<<12301>>), Eol>>)>>),
                  Cat(<<WordB, Lit(<<116, 115, 117, 107, 105>>), WordB>>)>>)],
    [key |-> "yuki",
     re |-> Alt(<<Cat(<<Alt(<<Lit(<<12300>>), Bol, Cls(WhiteSpace)>>), Lit(<<38634>>),
                        Alt(<<Lit(<<12301>>), Eol>>)>>),
                  Cat(<<WordB, Lit(<<121, 117, 107, 105>>), WordB>>)>>)]>>
NoKey == "none"
\* the key of the first rule that matches, NoKey (undefined) when none does
KeyOfRule(k) == IF k = 0 THEN NoKey ELSE GuessRules[k].key
\* a variant that lets the last rule that matches decide
guessRamenKeyLastRule(name) ==
  KeyOfRule(MaxOr0({k \in 1..Len(GuessRules) : TestI(GuessRules[k].re, name)}))
guessRamenKey(name) ==
  KeyOfRule(MinOr0({k \in 1..Len(GuessRules) : TestI(GuessRules[k].re, name)}))

makeEmptyTotals == [k \in RamenKeySet |-> 0]
makeEmptySetTotals == makeEmptyTotals

\* buildPaymentAliasMap: the payment key of a normalized header.  Map.set
\* lets a later key of PAYMENT_KEY_ORDER replace an earlier one.
NormalizedAliases ==
  [k \in PaymentKeySet |->
     {norm(PAYMENT_ALIASES[k][a]) : a \in 1..Len(PAYMENT_ALIASES[k])}]
AliasKeysOf(nk) ==
  {p \in 1..Len(PAYMENT_KEY_ORDER) : nk \in NormalizedAliases[PAYMENT_KEY_ORDER[p]]}
KeyAtOrder(p) == IF p = 0 THEN NoKey ELSE PAYMENT_KEY_ORDER[p]
aliasMapGet(nk) == KeyAtOrder(MaxOr0(AliasKeysOf(nk)))

(***************************************************************************)
(* Dates.  The built-in Date is modelled on a window of the calendar: an   *)
(* instant is a number of hours since 1970-01-01T00:00Z, the environment's *)
(* time zone a fixed offset in hours (no daylight-saving change inside the *)
(* window).                                                                *)
(***************************************************************************)
\* ISO text, days since 1970-01-01, month, day of month, getDay() weekday
CALENDAR ==
  <<[iso |-> <<50, 48, 50, 52, 45, 48, 52, 45, 50, 56>>, day |-> 19841, month |-> 4, date |-> 28, wd |-> 0],
    [iso |-> <<50, 48, 50, 52, 45, 48, 52, 45, 50, 57>>, day |-> 19842, month |-> 4, date |-> 29, wd |-> 1],
    [iso |-> <<50, 48, 50, 52, 45, 48, 52, 45, 51, 48>>, day |-> 19843, month |-> 4, date |-> 30, wd |-> 2],
    [iso |-> <<50, 48, 50, 52, 45, 48, 53, 45, 48, 49>>, day |-> 19844, month |-> 5, date |-> 1, wd |-> 3],
    [iso |-> <<50, 48, 50, 52, 45, 48, 53, 45, 48, 50>>, day |-> 19845, month |-> 5, date |-> 2, wd |-> 4],
    [iso |-> <<50, 48, 50, 52, 45, 48, 53, 45, 48, 51>>, day |-> 19846, month |-> 5, date |-> 3, wd |-> 5],
    [iso |-> <<50, 48, 50, 52, 45, 48, 53, 45, 48, 52>>, day |-> 19847, month |-> 5, date |-> 4, wd |-> 6]>>
CalDays == {CALENDAR[i].day : i \in DOMAIN CALENDAR}
CalOfDay(day) == CALENDAR[CHOOSE i \in DOMAIN CALENDAR : CALENDAR[i].day = day]
IsCalIso(iso) == \E i \in DOMAIN CALENDAR : CALENDAR[i].iso = iso
DayOfIso(iso) ==
  CALENDAR[CHOOSE i \in DOMAIN CALENDAR : CALENDAR[i].iso = iso].day
IsoOfDay(day) == CalOfDay(day).iso

\* new Date(isoDate + 'T00:00:00+09:00'): midnight in Japan of that date,
\* an Invalid Date when the text is no calendar date
InvalidDate == [valid |-> FALSE, h |-> 0]
ParseJst(iso) ==
  IF IsCalIso(iso) THEN [valid |-> TRUE, h |-> DayOfIso(iso) * 24 - 9]
  ELSE InvalidDate
\* the local calendar day and hour of an instant (getDate, getMonth, getDay
\* read the local day)
LocalDay(d, zone) == (d.h + zone) \div 24
LocalHour(d, zone) == (d.h + zone) % 24
\* d.setDate(d.getDate() + delta): the local day moves, the local time of
\* day stays
SetDateBy(d, zone, delta) ==
  [valid |-> TRUE,
   h |-> (LocalDay(d, zone) + delta) * 24 + LocalHour(d, zone) - zone]
\* d.toISOString().slice(0, 10): the UTC calendar day
IsoDateOf(d) == IsoOfDay(d.h \div 24)

\* Sunday .. Saturday
WEEKDAYS ==
  <<<<26085, 26332, 26085>>, <<26376, 26332, 26085>>, <<28779, 26332, 26085>>, <<27700, 26332, 26085>>, <<26408, 26332, 26085>>, <<37329, 26332, 26085>>, <<22303, 26332, 26085>>>>
\* `${month}gatsu${date}nichi(${weekday})`; of an Invalid Date:
\* NaN gatsu NaN nichi (undefined)
LabelOfDay(c) ==
  NumToStr(c.month) \o <<26376>> \o NumToStr(c.date) \o <<26085, 65288>>
    \o WEEKDAYS[c.wd + 1] \o <<65289>>
LabelOfDate(d, zone) ==
  IF ~d.valid THEN <<78, 97, 78, 26376, 78, 97, 78, 26085, 65288, 117, 110, 100, 101, 102, 105, 110, 101, 100, 65289>>
  ELSE LabelOfDay(CalOfDay(LocalDay(d, zone)))
jpDateLabel(isoDate, zone) == LabelOfDate(ParseJst(isoDate), zone)

\* padStart(2, '0')
PadStart2(s) == IF Len(s) < 2 THEN <<48>> \o s ELSE s

\* name.match(/(20\d{2})nen?0?(\d{1,2})gatsu?0?(\d{1,2})nichi?/) and the
\* text built from its groups; <<>> stands for undefined.  A start and a
\* choice (take the optional piece or not, two digits or one) is tried in
\* the engine's order: every quantifier is greedy, so taking comes first.
IsDigitAt(s, i) == i >= 1 /\ i <= Len(s) /\ s[i] \in Digits
IsCharAt(s, i, c) == i >= 1 /\ i <= Len(s) /\ s[i] = c
NameDateChoices == [nen : {0, 1}, z1 : {0, 1}, l2 : {1, 2},
                    gatsu : {0, 1}, z2 : {0, 1}, l3 : {1, 2}]
ChoiceRank(c) ==
  c.nen * 32 + c.z1 * 16 + (c.l2 - 1) * 8 + c.gatsu * 4 + c.z2 * 2 + (c.l3 - 1)
\* (20\d{2}) at position i
YearAt(s, i) ==
  /\ IsCharAt(s, i, 50) /\ IsCharAt(s, i + 1, 48)
  /\ IsDigitAt(s, i + 2) /\ IsDigitAt(s, i + 3)
\* the rest of the pattern after the year, under choice c
NameDateFits(s, i, c) ==
  LET p1 == i + 4
      p2 == p1 + c.nen
      p3 == p2 + c.z1
      p4 == p3 + c.l2
      p5 == p4 + c.gatsu
      p6 == p5 + c.z2
  IN  /\ (c.nen = 1 => IsCharAt(s, p1, 24180))
      /\ (c.z1 = 1 => IsCharAt(s, p2, 48))
      /\ \A k \in 0..(c.l2 - 1) : IsDigitAt(s, p3 + k)
      /\ (c.gatsu = 1 => IsCharAt(s, p4, 26376))
      /\ (c.z2 = 1 => IsCharAt(s, p5, 48))
      /\ \A k \in 0..(c.l3 - 1) : IsDigitAt(s, p6 + k)
\* `${year}-${month.padStart(2, '0')}-${day.padStart(2, '0')}` of the match
\* at position i under choice c
NameDateText(s, i, c) ==
  SubSeq(s, i, i + 3) \o <<45>>
    \o PadStart2(SubSeq(s, i + 4 + c.nen + c.z1,
                        i + 4 + c.nen + c.z1 + c.l2 - 1)) \o <<45>>
    \o PadStart2(SubSeq(s, i + 4 + c.nen + c.z1 + c.l2 + c.gatsu + c.z2,
                        i + 4 + c.nen + c.z1 + c.l2 + c.gatsu + c.z2 + c.l3 - 1))
BestChoice(ok) == CHOOSE x \in ok : \A y \in ok : ChoiceRank(y) <= ChoiceRank(x)
NameDateAt(s, i) ==
  IF i = 0 THEN <<>>
  ELSE NameDateText(s, i, BestChoice({c \in NameDateChoices : NameDateFits(s, i, c)}))
dateISOFromName(s) ==
  NameDateAt(s, MinOr0({i \in 1..Len(s) :
                          YearAt(s, i)
                            /\ \E c \in NameDateChoices : NameDateFits(s, i, c)}))

\* String(dayRow[period] ?? '').match(/^\d{4}-\d{2}-\d{2}/)?.[0]; the
\* column is looked up by its exact key
PERIOD_KEY == <<38598, 35336, 26399, 38291>>
ISO_PREFIX_PATTERN ==
  Cat(<<Bol, Rep(Cls(Digits), 4, 4), Lit(<<45>>), Rep(Cls(Digits), 2, 2),
        Lit(<<45>>), Rep(Cls(Digits), 2, 2)>>)
IsoPrefixOf(txt) == MatchedOrNone(Match(ISO_PREFIX_PATTERN, txt), txt)
dateISOFromCol(dayRow) ==
  IsoPrefixOf(TextAt(dayRow,
                     MinOr0({i \in 1..Len(dayRow) : dayRow[i].key = PERIOD_KEY})))

\* a ?? b ?? c ?? d
Coalesce(q) == q[Min({i \in 1..Len(q) : q[i] # <<>>})]

(***************************************************************************)
(* makeSummary: the payment row                                            *)
(***************************************************************************)
\* ignoreSet: every alias, every payment label, the head-count headers and
\* the literal list, all normalized
ignoreSet ==
  UNION {{norm(PAYMENT_ALIASES[k][a]) : a \in 1..Len(PAYMENT_ALIASES[k])} :
           k \in PaymentKeySet}
    \cup {norm(PAYMENT_LABELS[k]) : k \in PaymentKeySet}
    \cup {norm(l) : l \in Range(EXTRA_PAYMENT_IGNORE)}
    \cup {norm(l) : l \in Range(IGNORE_LITERALS)}

EmptyPayments == [k \in PaymentKeySet |-> 0]
\* One turn of Object.entries(dayRow).forEach: a known channel other than
\* total accumulates, an ignored header is dropped, anything else non-zero
\* becomes an other payment.
PaymentPut(acc, label, amount, nk, pkey) ==
  IF amount = 0 THEN acc
  ELSE IF pkey # NoKey /\ pkey # "total"
         THEN [acc EXCEPT !.payments[pkey] = @ + amount]
  ELSE IF nk \in ignoreSet THEN acc
  ELSE [acc EXCEPT !.otherPayments =
                      Append(@, [label |-> label, amount |-> amount])]
PaymentEntry(acc, label, amount, nk) ==
  PaymentPut(acc, label, amount, nk, aliasMapGet(nk))
PaymentStep(acc, col) ==
  PaymentEntry(acc, col.key, toNum(col.val), norm(col.key))
RECURSIVE PaymentLoop(_, _, _)
PaymentLoop(dayRow, i, acc) ==
  IF i > Len(dayRow) THEN acc
  ELSE PaymentLoop(dayRow, i + 1, PaymentStep(acc, dayRow[i]))

\* cands.map(c => firstByCandidates(row, [c])).find(v => v > 0) ?? 0
FirstPositive(q) ==
  IF \A c \in 1..Len(q) : ~(q[c] > 0) THEN 0
  ELSE q[Min({c \in 1..Len(q) : q[c] > 0})]
\* a variant that adds up every candidate's value
pickSum(row, cands) ==
  SumSeq([c \in 1..Len(cands) |-> firstByCandidates(row, <<cands[c]>>)])
pickFirst(row, cands) ==
  FirstPositive([c \in 1..Len(cands) |-> firstByCandidates(row, <<cands[c]>>)])

\* payments and otherPayments of the day row
\* if (fixedTotal) payments.total = fixedTotal
FixTotal(acc, fixedTotal) ==
  IF fixedTotal # 0 THEN [acc EXCEPT !.payments["total"] = fixedTotal] ELSE acc
NormalizePayments(dayRow) ==
  FixTotal(PaymentLoop(dayRow, 1,
                       [payments |-> EmptyPayments, otherPayments |-> <<>>]),
           pickFirst(dayRow, PAYMENT_ALIASES["total"]))

(***************************************************************************)
(* makeSummary: the product rows                                           *)
(***************************************************************************)
\* /(course-katakana|course)/i on the name, /(yoyaku menu|yoyaku|course-
\* katakana|course)/i on the category
COURSE_NAME_PATTERN == Alt(<<Lit(<<12467, 12540, 12473>>), Lit(<<99, 111, 117, 114, 115, 101>>)>>)
COURSE_CATEGORY_PATTERN ==
  Alt(<<Lit(<<20104, 32004, 12513, 12491, 12517, 12540>>), Lit(<<20104, 32004>>), Lit(<<12467, 12540, 12473>>), Lit(<<99, 111, 117, 114, 115, 101>>)>>)
\* /setto|set/i, /(setto|set\b)/i, /setto/i
SET_WORD_PATTERN == Alt(<<Lit(<<12475, 12483, 12488>>), Lit(<<115, 101, 116>>)>>)
SET_NAME_PATTERN == Alt(<<Lit(<<12475, 12483, 12488>>), Cat(<<Lit(<<115, 101, 116>>), WordB>>)>>)
SET_CATEGORY_PATTERN == Lit(<<12475, 12483, 12488>>)

NoEntry == [label |-> <<>>, price |-> 0, count |-> 0]
\* the entry pushed for a course row: label by keyword, price from the
\* first run of 4-5 digits, head count from "N mei" or else the quantity
CourseEntryOf(name, count, priceMatch, peopleMatch) ==
  [label |-> IF TestI(DINNER_PATTERN, name) THEN <<12487, 12451, 12490, 12540>>
             ELSE IF TestI(CROWDFUND_PATTERN, name) THEN <<12463, 12521, 12501, 12449, 12531, 12467, 12540, 12473>>
             ELSE <<12467, 12540, 12473>>,
   price |-> IF priceMatch = NoMatch THEN 0
             ELSE DigitsToNat(Matched(priceMatch, name)),
   count |-> IF peopleMatch = NoMatch THEN count
             ELSE DigitsToNat(SubSeq(name, peopleMatch.from, peopleMatch.to - 2))]
CourseEntry(name, count) ==
  CourseEntryOf(name, count, Match(PRICE_PATTERN, name),
                Match(NAME_PEOPLE_PATTERN, name))

\* What the body of the product loop does with one row: which branch is
\* taken (kind) and the values it uses.
\*   skip      if (!count) continue
\*   excluded  EXCLUDED_PRODUCT_REGEXPS
\*   forced    FORCE_AMBIG_SET_HANA_GEKKA and a set word: ambiguous.push
\*   yokubari, patty   the two side dishes
\*   course    coursePeople.push
\*   set, plain        a guessed ramen key
\*   fallback  isRamenish: ambiguous.push
\*   dropped   nothing matches
isCourse(name, category) ==
  TestI(COURSE_NAME_PATTERN, name) \/ TestI(COURSE_CATEGORY_PATTERN, category)
isSet(name, category) ==
  TestI(SET_NAME_PATTERN, name) \/ TestI(SET_CATEGORY_PATTERN, category)
RowKind(name, count, category, guessed) ==
  IF count = 0 THEN "skip"
  ELSE IF \E k \in 1..Len(EXCLUDED_PRODUCT_REGEXPS) :
             TestI(EXCLUDED_PRODUCT_REGEXPS[k], name) THEN "excluded"
  ELSE IF TestI(FORCE_AMBIG_SET_HANA_GEKKA, name)
            /\ TestI(SET_WORD_PATTERN, name) THEN "forced"
  ELSE IF isYokubariCurry(name) THEN "yokubari"
  ELSE IF isPattyCurry(name) THEN "patty"
  ELSE IF isCourse(name, category) THEN "course"
  ELSE IF guessed # NoKey
         THEN (IF isSet(name, category) THEN "set" ELSE "plain")
  ELSE IF isRamenish(name) THEN "fallback"
  ELSE "dropped"
FateRecord(kind, name, count, guessed) ==
  [kind |-> kind, name |-> name, count |-> count, key |-> guessed,
   entry |-> IF kind = "course" THEN CourseEntry(name, count) ELSE NoEntry]
FateOf(name, count, category, guessed) ==
  FateRecord(RowKind(name, count, category, guessed), name, count, guessed)
NamedFate(name, count, category) ==
  FateOf(name, count, category, guessRamenKey(name))
RowFate(row) ==
  NamedFate(firstKeyStr(row, PRODUCT_NAME_CANDS),
            firstByCandidates(row, PRODUCT_QTY_CANDS),
            firstKeyStr(row, PRODUCT_CATEGORY_CANDS))

EmptyAcc ==
  [localTotals |-> makeEmptyTotals, localSetTotals |-> makeEmptySetTotals,
   localCourseTotals |-> makeEmptySetTotals, ambiguous |-> <<>>,
   coursePeople |-> <<>>, yokubariCurry |-> 0, pattyCurry |-> 0]
\* a variant in which a course row whose name holds a ramen key is also
\* counted as that ramen
ProductStepCountingCourses(acc, f) ==
  CASE f.kind \in {"forced", "fallback"} ->
         [acc EXCEPT !.ambiguous = Append(@, [name |-> f.name, count |-> f.count])]
    [] f.kind = "yokubari" -> [acc EXCEPT !.yokubariCurry = @ + f.count]
    [] f.kind = "patty" -> [acc EXCEPT !.pattyCurry = @ + f.count]
    [] f.kind = "course" /\ f.key = NoKey ->
         [acc EXCEPT !.coursePeople = Append(@, f.entry)]
    [] f.kind = "course" /\ f.key # NoKey ->
         [acc EXCEPT !.coursePeople = Append(@, f.entry),
                     !.localTotals[f.key] = @ + f.count]
    [] f.kind = "set" -> [acc EXCEPT !.localSetTotals[f.key] = @ + f.count]
    [] f.kind = "plain" -> [acc EXCEPT !.localTotals[f.key] = @ + f.count]
    [] OTHER -> acc
\* one turn of for (const row of productRows)
ProductStep(acc, f) ==
  CASE f.kind \in {"forced", "fallback"} ->
         [acc EXCEPT !.ambiguous = Append(@, [name |-> f.name, count |-> f.count])]
    [] f.kind = "yokubari" -> [acc EXCEPT !.yokubariCurry = @ + f.count]
    [] f.kind = "patty" -> [acc EXCEPT !.pattyCurry = @ + f.count]
    [] f.kind = "course" -> [acc EXCEPT !.coursePeople = Append(@, f.entry)]
    [] f.kind = "set" -> [acc EXCEPT !.localSetTotals[f.key] = @ + f.count]
    [] f.kind = "plain" -> [acc EXCEPT !.localTotals[f.key] = @ + f.count]
    [] OTHER -> acc
RECURSIVE ProductLoop(_, _, _)
ProductLoop(fates, i, acc) ==
  IF i > Len(fates) THEN acc
  ELSE ProductLoop(fates, i + 1, ProductStep(acc, fates[i]))

(***************************************************************************)
(* renderOutput.  A line is a string; the report is the lines joined by    *)
(* line feeds.                                                             *)
(***************************************************************************)
\* Number.prototype.toLocaleString('ja-JP') of a non-negative integer:
\* groups of three digits separated by commas
RECURSIVE GroupDigits(_)
GroupDigits(d) ==
  IF Len(d) <= 3 THEN d
  ELSE GroupDigits(SubSeq(d, 1, Len(d) - 3)) \o <<44>>
         \o SubSeq(d, Len(d) - 2, Len(d))
toLocaleString(n) ==
  IF n < 0 THEN <<45>> \o GroupDigits(NatToDigits(-n))
  ELSE GroupDigits(NatToDigits(n))
\* the yen sign and the grouped number
jpCurrency(n) == <<165>> \o toLocaleString(n)

\* pushBlank: an empty line unless the list is empty or ends with one
pushBlank(lines) ==
  IF Len(lines) > 0 /\ lines[Len(lines)] # <<>> THEN Append(lines, <<>>)
  ELSE lines

\* parts.join(sep)
RECURSIVE Join(_, _)
Join(parts, sep) ==
  IF parts = <<>> THEN <<>>
  ELSE IF Len(parts) = 1 THEN parts[1]
  ELSE parts[1] \o sep \o Join(Tail(parts), sep)

\* lines.push(...section) after pushBlank(), when the section has lines
PushSection(lines, section) ==
  IF Len(section) > 0 THEN pushBlank(lines) \o section ELSE lines

\* 2) one line per channel with a positive amount, then the other payments
\*    with a positive amount: label, ideographic space, amount
ChannelLines(meta, chan) ==
  [i \in 1..Len(chan) |->
     PAYMENT_LABELS[chan[i]] \o <<12288>> \o jpCurrency(meta.payments[chan[i]])]
OtherLines(other) ==
  [i \in 1..Len(other) |-> other[i].label \o <<12288>> \o jpCurrency(other[i].amount)]
PaymentLines(meta) ==
  ChannelLines(meta, FilterIdx(PAYMENT_KEY_ORDER,
                               LAMBDA i : meta.payments[PAYMENT_KEY_ORDER[i]] > 0, 1))
    \o OtherLines(FilterIdx(meta.otherPayments,
                            LAMBDA i : meta.otherPayments[i].amount > 0, 1))
\* 3) groups (kumi) and people (nin), each when positive
GroupPeopleLines(meta) ==
  (IF meta.groups > 0 THEN <<NumToStr(meta.groups) \o <<32068>>>> ELSE <<>>)
    \o (IF meta.people > 0 THEN <<NumToStr(meta.people) \o <<20154>>>> ELSE <<>>)
\* 4) the ramen header and one line per key, in display order, whose total
\*    is positive; set and course parts in a parenthesized note
ramenTotalCount(ramenTotals, ramenSetTotals, ramenCourseTotals) ==
  SumSeq([i \in 1..Len(RAMEN_KEYS) |->
            ramenTotals[RAMEN_KEYS[i]] + ramenSetTotals[RAMEN_KEYS[i]]
              + ramenCourseTotals[RAMEN_KEYS[i]]])
RamenNote(noteParts) ==
  IF Len(noteParts) > 0 THEN <<40>> \o Join(noteParts, <<44, 32>>) \o <<41>> ELSE <<>>
RamenLine(key, base, setCount, courseCount) ==
  <<12539>> \o RAMEN_LABELS[key] \o <<12288>>
    \o NumToStr(base + setCount + courseCount) \o <<26479>>
    \o RamenNote((IF setCount > 0
                   THEN <<<<43, 12475, 12483, 12488>> \o NumToStr(setCount) \o <<26479>>>> ELSE <<>>)
                 \o (IF courseCount > 0
                       THEN <<<<43, 12467, 12540, 12473>> \o NumToStr(courseCount) \o <<26479>>>>
                       ELSE <<>>))
RamenKeyLines(shown, ramenTotals, ramenSetTotals, ramenCourseTotals) ==
  [i \in 1..Len(shown) |->
     RamenLine(shown[i], ramenTotals[shown[i]], ramenSetTotals[shown[i]],
               ramenCourseTotals[shown[i]])]
RamenLines(ramenTotals, ramenSetTotals, ramenCourseTotals) ==
  <<<<12521, 12540, 12513, 12531, 32, 32>>
      \o NumToStr(ramenTotalCount(ramenTotals, ramenSetTotals, ramenCourseTotals))
      \o <<26479>>>>
  \o RamenKeyLines(
       FilterIdx(RAMEN_DISPLAY_ORDER,
                 LAMBDA i : ramenTotals[RAMEN_DISPLAY_ORDER[i]]
                              + ramenSetTotals[RAMEN_DISPLAY_ORDER[i]]
                              + ramenCourseTotals[RAMEN_DISPLAY_ORDER[i]] > 0, 1),
       ramenTotals, ramenSetTotals, ramenCourseTotals)
PushRamen(lines, ramenTotals, ramenSetTotals, ramenCourseTotals) ==
  IF ramenTotalCount(ramenTotals, ramenSetTotals, ramenCourseTotals) > 0
  THEN pushBlank(lines) \o RamenLines(ramenTotals, ramenSetTotals, ramenCourseTotals)
  ELSE lines
\* 5) the two side dishes, each when positive
SideLines(meta) ==
  (IF meta.yokubariCurry > 0
     THEN <<<<12424, 12367, 12400, 12426, 12459, 12524, 12540, 12288>> \o NumToStr(meta.yokubariCurry) \o <<26479>>>>
     ELSE <<>>)
  \o (IF meta.pattyCurry > 0
        THEN <<<<12497, 12486, 12451, 12459, 12524, 12540, 12288>> \o NumToStr(meta.pattyCurry) \o <<26479>>>>
        ELSE <<>>)
\* 6) one line per course entry whose head count is positive; pushBlank is
\*    called whenever the list has an entry
CourseLinesOf(shown) ==
  [i \in 1..Len(shown) |->
     shown[i].label
       \o (IF shown[i].price > 0 THEN NumToStr(shown[i].price) ELSE <<>>)
       \o <<32>> \o NumToStr(shown[i].count) \o <<21517>>]
CourseLines(coursePeople) ==
  CourseLinesOf(FilterIdx(coursePeople, LAMBDA i : coursePeople[i].count > 0, 1))
PushCourse(lines, coursePeople) ==
  IF Len(coursePeople) > 0 THEN pushBlank(lines) \o CourseLines(coursePeople)
  ELSE lines
\* 7) the notice of items still to assign
UnassignedLine(unassignedCount) ==
  <<65288, 35201, 25391, 12426, 20998, 12369, 20505, 35036, 65306, 26410, 35336, 19978, 32>> \o NumToStr(unassignedCount) \o <<32, 20214, 65289>>
PushUnassigned(lines, unassignedCount) ==
  IF unassignedCount > 0
  THEN Append(pushBlank(lines), UnassignedLine(unassignedCount)) ELSE lines

\* the lines array at the end of renderOutput
RenderLines(meta, ramenTotals, ramenSetTotals, ramenCourseTotals, coursePeople, unassignedCount, zone) ==
  PushUnassigned(
    PushCourse(
      PushSection(
        PushRamen(
          PushSection(
            PushSection(<<jpDateLabel(meta.dateISO, zone)>>, PaymentLines(meta)),
            GroupPeopleLines(meta)),
          ramenTotals, ramenSetTotals, ramenCourseTotals),
        SideLines(meta)),
      coursePeople),
    unassignedCount)
renderOutput(meta, ramenTotals, ramenSetTotals, ramenCourseTotals, coursePeople, unassignedCount, zone) ==
  Join(RenderLines(meta, ramenTotals, ramenSetTotals, ramenCourseTotals,
                   coursePeople, unassignedCount, zone), <<10>>)

(***************************************************************************)
(* Inputs.  The rows a decoder can hand over are drawn from two            *)
(* catalogues: product rows and payment-row columns.  A file names its     *)
(* rows by their catalogue numbers; readRows resolves them.                *)
(***************************************************************************)
\* a product row with the usual headers: name, quantity, category
PRow(name, qty, category) ==
  <<Col(<<21830, 21697, 21517>>, Str(name)), Col(<<25968, 37327>>, qty), Col(<<12459, 12486, 12468, 12522>>, Str(category))>>
ProductRowCatalogue ==
  << \*  1 soy-milk ramen [hana] x2: plain hana
     PRow(<<35910, 20083, 12521, 12540, 12513, 12531, 12300, 33457, 12301>>, Str(<<50>>), <<12521, 12540, 12513, 12531>>),
     \*  2 setsugekka set x1: set setsugekka
     PRow(<<38634, 26376, 33457, 12475, 12483, 12488>>, Num(1), <<12475, 12483, 12488>>),
     \*  3 yokubari curry x3: side dish
     PRow(<<12424, 12367, 12400, 12426, 12459, 12524, 12540>>, Num(3), <<12469, 12452, 12489>>),
     \*  4 gekka course (for 2): excluded
     PRow(<<26376, 33457, 12467, 12540, 12473, 65288, 50, 21517, 27096, 65289>>, Num(1), <<12467, 12540, 12473>>),
     \*  5 ramen [hana] or [gekka] set x1: forced to the unassigned list
     PRow(<<12521, 12540, 12513, 12531, 12300, 33457, 12301, 111, 114, 12300, 26376, 33457, 12301, 12475, 12483, 12488>>, Num(1), <<12475, 12483, 12488>>),
     \*  6 soy-sauce ramen x2: no key guessed, ramen-like: unassigned
     PRow(<<37284, 27833, 12521, 12540, 12513, 12531>>, Str(<<50>>), <<12521, 12540, 12513, 12531>>),
     \*  7 dinner course 8000 hana x2: a course whose name ends with a key
     PRow(<<12487, 12451, 12490, 12540, 12467, 12540, 12473, 56, 48, 48, 48, 32, 33457>>, Num(2), <<12487, 12451, 12490, 12540>>),
     \*  8 soy-milk ramen [hana] x(-2): a negative quantity
     PRow(<<35910, 20083, 12521, 12540, 12513, 12531, 12300, 33457, 12301>>, Str(<<45, 50>>), <<12521, 12540, 12513, 12531>>),
     \*  9 course for 0 people x1: a course entry with head count 0
     PRow(<<12467, 12540, 12473, 32, 48, 21517>>, Num(1), <<>>),
     \* 10 soy-milk ramen [hana] with an empty quantity cell
     PRow(<<35910, 20083, 12521, 12540, 12513, 12531, 12300, 33457, 12301>>, Str(<<>>), <<12521, 12540, 12513, 12531>>),
     \* 11 oolong tea x1: nothing matches
     PRow(<<12454, 12540, 12525, 12531, 33590>>, Num(1), <<12489, 12522, 12531, 12463>>),
     \* 12 soy-sauce ramen x(-1): a negative unassigned quantity
     PRow(<<37284, 27833, 12521, 12540, 12513, 12531>>, Num(-1), <<12521, 12540, 12513, 12531>>),
     \* 13 yokubari curry course x1: side dish and course keyword
     PRow(<<12424, 12367, 12400, 12426, 12459, 12524, 12540, 12467, 12540, 12473>>, Num(1), <<12467, 12540, 12473>>),
     \* 14 soy-milk ramen [hana] x2 in the reservation-menu category
     PRow(<<35910, 20083, 12521, 12540, 12513, 12531, 12300, 33457, 12301>>, Num(2), <<20104, 32004, 12513, 12491, 12517, 12540>>),
     \* 15 patty curry under Item Name; Qty says 5 and " quantity " says 1:
     \*    Quantity comes before Qty among the candidates, so x1
     <<Col(<<81, 116, 121>>, Num(5)), Col(<<73, 116, 101, 109, 32, 78, 97, 109, 101>>, Str(<<12497, 12486, 12451, 12459, 12524, 12540>>)),
       Col(<<32, 113, 117, 97, 110, 116, 105, 116, 121, 32>>, Num(1))>>,
     \* 16 soy-milk ramen [hana] x0
     PRow(<<35910, 20083, 12521, 12540, 12513, 12531, 12300, 33457, 12301>>, Num(0), <<12521, 12540, 12513, 12531>>),
     \* 17 crowdfunding course 12000 for 3 people x1
     PRow(<<12463, 12521, 12501, 12449, 12531, 12467, 12540, 12473, 49, 50, 48, 48, 48, 20870, 32, 51, 21517>>, Num(1), <<>>),
     \* 18 gekka set x1
     PRow(<<26376, 33457, 12475, 12483, 12488>>, Num(1), <<>>),
     \* 19 a row with no quantity column
     <<Col(<<21830, 21697, 21517>>, Str(<<35910, 20083, 12521, 12540, 12513, 12531, 12300, 33457, 12301>>))>>,
     \* 20 course x(-1): a cancelled booking
     PRow(<<12467, 12540, 12473>>, Num(-1), <<>>),
     \* 21 gekka ramen course x1: excluded, and also a course, a ramen key
     \*    and ramen-like
     PRow(<<26376, 33457, 12521, 12540, 12513, 12531, 12467, 12540, 12473>>, Num(1), <<12467, 12540, 12473>>) >>

StatsColumnCatalogue ==
  << \*  1 sales, tax included (first total alias): "Y1,234"
     Col(<<22770, 19978, 39640, 65288, 31246, 36796, 12415, 65289>>, Str(<<165, 49, 44, 50, 51, 52>>)),
     \*  2 PayPay 500
     Col(<<80, 97, 121, 80, 97, 121>>, Num(500)),
     \*  3 groups 10
     Col(<<32068, 25968>>, Num(10)),
     \*  4 tax-included sales (last total alias) 999
     Col(<<31246, 36796, 22770, 19978>>, Num(999)),
     \*  5 sales (tax incl.), third total alias, value 0
     Col(<<22770, 19978, 39640, 32, 40, 31246, 36796, 41>>, Num(0)),
     \*  6 " PAYPAY" with a no-break space in front: 200
     Col(<<160, 80, 65, 89, 80, 65, 89>>, Str(<<50, 48, 48>>)),
     \*  7 cash "3,000"
     Col(<<29694, 37329>>, Str(<<51, 44, 48, 48, 48>>)),
     \*  8 gift voucher (unknown header) 700
     Col(<<21830, 21697, 21048>>, Num(700)),
     \*  9 refund (unknown header) -300
     Col(<<36820, 37329>>, Num(-300)),
     \* 10 discount -100 (ignored header)
     Col(<<21106, 24341>>, Num(-100)),
     \* 11 period "2024-05-01" (ignored header, the date column)
     Col(<<38598, 35336, 26399, 38291>>, Str(<<50, 48, 50, 52, 45, 48, 53, 45, 48, 49>>)),
     \* 12 memo (unknown header) with no number in it
     Col(<<12513, 12514>>, Str(<<97, 98, 99>>)),
     \* 13 guests 25
     Col(<<23458, 25968>>, Str(<<50, 53>>)),
     \* 14 the first total alias again, written with a trailing space: 50
     Col(<<22770, 19978, 39640, 65288, 31246, 36796, 12415, 65289, 32>>, Num(50)),
     \* 15 sales without tax (ignored header) 1100
     Col(<<22770, 19978, 39640, 65288, 31246, 25244, 12365, 65289>>, Num(1100)) >>

NoFile == [picked |-> FALSE, name |-> <<>>, rows |-> <<>>]
File(name, rows) == [picked |-> TRUE, name |-> name, rows |-> rows]
\* readRows of a product file and of a payment file
\* Product names are also built from pieces, to try the detection of the
\* ramen key on every short name over them: the single characters of the
\* compound keys, the brackets, a space, the set word and soy-milk ramen.
NAME_PIECES ==
  <<<<38634>>, <<26376>>, <<33457>>, <<27703>>, <<12371, 12405, 12428>>, <<12300>>, <<12301>>, <<32>>, <<12475, 12483, 12488>>,
    <<35910, 20083, 12521, 12540, 12513, 12531>>>>
NAME_CATEGORIES == <<<<>>, <<12475, 12483, 12488>>>>
\* names of at most MaxPieces pieces
MaxPieces == 4
RECURSIVE Power(_, _)
Power(b, e) == IF e = 0 THEN 1 ELSE b * Power(b, e - 1)
\* the number of names: sequences of 0 .. MaxPieces pieces
NameCount == SumSeq([k \in 1..(MaxPieces + 1) |-> Power(Len(NAME_PIECES), k - 1)])
\* the n-th name (n = 0 is the empty name), pieces numbered bijectively
RECURSIVE NameOfNumber(_)
NameOfNumber(n) ==
  IF n = 0 THEN <<>>
  ELSE NAME_PIECES[((n - 1) % Len(NAME_PIECES)) + 1]
         \o NameOfNumber((n - 1) \div Len(NAME_PIECES))
\* a row of two servings with the n-th name and a category
NameRow(n) ==
  PRow(NameOfNumber(n % NameCount), Num(2),
       NAME_CATEGORIES[(n \div NameCount) + 1])
\* rows are numbered: the catalogue first, then the rows of built names
NameRowNumbers ==
  {Len(ProductRowCatalogue) + 1 + n :
     n \in 0..(Len(NAME_CATEGORIES) * NameCount - 1)}
ProductRow(r) ==
  IF r \in DOMAIN ProductRowCatalogue THEN ProductRowCatalogue[r]
  ELSE NameRow(r - Len(ProductRowCatalogue) - 1)
ReadProductRows(file) == [i \in 1..Len(file.rows) |-> ProductRow(file.rows[i])]
ReadStatsRows(file) ==
  [i \in 1..Len(file.rows) |->
     [j \in 1..Len(file.rows[i]) |-> StatsColumnCatalogue[file.rows[i][j]]]]

(***************************************************************************)
(* Bounds                                                                  *)
(***************************************************************************)
\* classification runs that may await their files at once, in the session
\* and where runs overlap
MaxRuns == 1
MaxOverlap == 2
\* rows of a product file and columns of a payment row, when every file
\* over the catalogues is tried
MaxRows == 2
MaxCols == 2
\* the environment: the UTC date at which the session runs, and its time
\* zones (UTC and Japan)
TodayChoices == {<<50, 48, 50, 52, 45, 48, 53, 45, 48, 50>>}
Zones == {0, 9}
\* arguments of the reassignment calls: index, key, amount.  An amount is
\* omitted, not finite, or a number of halves (so that Math.floor acts).
AssignIndexes == 0..2
AssignKeys == {"hana", "gekka"}
Omitted == [t |-> "omitted", half |-> 0]
NotFinite == [t |-> "nan", half |-> 0]
Amount(half) == [t |-> "num", half |-> half]
AssignAmounts ==
  {Omitted, NotFinite, Amount(-2), Amount(1), Amount(3), Amount(10)}

\* the files the operator can pick in the session
SessionProductFiles ==
  { \* one ambiguous row of two bowls; the name carries a date
    File(<<21830, 21697, 21029, 95, 50, 48, 50, 52, 24180, 53, 26376, 51, 26085, 46, 99, 115, 118>>, <<6>>),
    \* the three rows of the scenario, a course, a negative fallback row
    File(<<112, 114, 111, 100, 117, 99, 116, 115, 46, 99, 115, 118>>, <<1, 2, 3, 7, 12>>) }
SessionStatsFiles ==
  { \* sales, PayPay, groups, gift voucher
    File(<<115, 116, 97, 116, 115, 46, 99, 115, 118>>, << <<1, 2, 3, 8>> >>),
    \* cash and a refund; the name spells a date compactly
    File(<<25903, 25173, 95, 50, 48, 50, 52, 48, 53, 48, 49, 46, 99, 115, 118>>, << <<7, 9>> >>),
    \* a file with a header line only
    File(<<101, 109, 112, 116, 121, 46, 99, 115, 118>>, <<>>) }

\* every sequence without repetition of at most n members of S
RECURSIVE SeqsUpTo(_, _)
SeqsUpTo(S, n) ==
  IF n = 0 THEN {<<>>}
  ELSE LET shorter == SeqsUpTo(S, n - 1)
       IN  shorter \cup {Append(q, x) : q \in shorter, x \in S}
InjSeqsUpTo(S, n) ==
  {q \in SeqsUpTo(S, n) : \A i, j \in 1..Len(q) : i # j => q[i] # q[j]}
\* every product file of at most MaxRows catalogue rows, every payment file
\* of one row of at most MaxCols distinct catalogue columns
WideProductFiles ==
  {File(<<112, 114, 111, 100, 117, 99, 116, 115, 46, 99, 115, 118>>, q) : q \in SeqsUpTo(DOMAIN ProductRowCatalogue, MaxRows)}
WideStatsFiles ==
  {File(<<115, 116, 97, 116, 115, 46, 99, 115, 118>>, <<q>>) :
     q \in InjSeqsUpTo(DOMAIN StatsColumnCatalogue, MaxCols)}
\* every product file of one row with a built name
NameProductFiles == {File(<<112, 114, 111, 100, 117, 99, 116, 115, 46, 99, 115, 118>>, <<r>>) : r \in NameRowNumbers}
BaseProductFile == File(<<21830, 21697, 21029, 95, 50, 48, 50, 52, 24180, 53, 26376, 51, 26085, 46, 99, 115, 118>>, <<1, 2, 3>>)
BaseStatsFile == File(<<25903, 25173, 95, 50, 48, 50, 52, 48, 53, 48, 49, 46, 99, 115, 118>>, << <<1, 2, 3>> >>)

(***************************************************************************)
(* The screen's state (the useState cells of TestPageScreen), the runs of  *)
(* makeSummary that await their files, and the environment.                *)
(***************************************************************************)
VARIABLES
  productFile,          \* the picked product file, NoFile for null
  statsFile,            \* the picked payment file, NoFile for null
  unassigned,           \* UnassignedItem[]
  ramenTotals,          \* plain count per ramen key
  ramenSetTotals,       \* set count per ramen key
  ramenCourseTotals,    \* course count per ramen key
  coursePeopleEntries,  \* CoursePeopleEntry[]
  meta,                 \* MetaState
  pending,              \* the runs of makeSummary suspended at their await
  outcome,              \* history: the last handler and how it ended
  edits,                \* history: "edited" when a handler other than
                        \* makeSummary has changed the report since it was
                        \* last stored; "replaced" when the last run that
                        \* stored its result replaced such a report, and
                        \* "replaced courses" when that report held course
                        \* counts
  zone,                 \* the environment's time zone, hours east of UTC
  today                 \* new Date().toISOString().slice(0, 10)

env == <<zone, today>>
files == <<productFile, statsFile>>
report == <<unassigned, ramenTotals, ramenSetTotals, ramenCourseTotals,
            coursePeopleEntries, meta>>
vars == <<files, report, pending, outcome, edits, env>>

\* the six cells of the report as one value, and their assignment
Report ==
  [unassigned |-> unassigned, ramenTotals |-> ramenTotals,
   ramenSetTotals |-> ramenSetTotals, ramenCourseTotals |-> ramenCourseTotals,
   coursePeopleEntries |-> coursePeopleEntries, meta |-> meta]
SetReport(r) ==
  /\ unassigned' = r.unassigned
  /\ ramenTotals' = r.ramenTotals
  /\ ramenSetTotals' = r.ramenSetTotals
  /\ ramenCourseTotals' = r.ramenCourseTotals
  /\ coursePeopleEntries' = r.coursePeopleEntries
  /\ meta' = r.meta

\* const output = useMemo(() => renderOutput(...)): the report text
output ==
  renderOutput(meta, ramenTotals, ramenSetTotals, ramenCourseTotals,
               coursePeopleEntries, Len(unassigned), zone)

\* the useState initial values
InitialReport(todayIso) ==
  [unassigned |-> <<>>, ramenTotals |-> makeEmptyTotals,
   ramenSetTotals |-> makeEmptySetTotals,
   ramenCourseTotals |-> makeEmptySetTotals, coursePeopleEntries |-> <<>>,
   meta |-> [dateISO |-> todayIso, payments |-> EmptyPayments,
             otherPayments |-> <<>>, groups |-> 0, people |-> 0,
             yokubariCurry |-> 0, pattyCurry |-> 0]]

(***************************************************************************)
(* makeSummary                                                             *)
(***************************************************************************)
\* RowFate of every catalogue row, and of the rows of a file
FateTable == [i \in DOMAIN ProductRowCatalogue |-> RowFate(ProductRowCatalogue[i])]
FateOfRow(r) ==
  IF r \in DOMAIN FateTable THEN FateTable[r] ELSE RowFate(ProductRow(r))
RowFates(file) == [i \in 1..Len(file.rows) |-> FateOfRow(file.rows[i])]

\* The values makeSummary hands to the six setters, from the rows read.
\* the arguments of the six setters
Committed(acc, pay, dateISO, groups, people) ==
  [unassigned |-> acc.ambiguous, ramenTotals |-> acc.localTotals,
   ramenSetTotals |-> acc.localSetTotals,
   ramenCourseTotals |-> acc.localCourseTotals,
   coursePeopleEntries |-> acc.coursePeople,
   meta |-> [dateISO |-> dateISO, payments |-> pay.payments,
             otherPayments |-> pay.otherPayments,
             groups |-> groups, people |-> people,
             yokubariCurry |-> acc.yokubariCurry,
             pattyCurry |-> acc.pattyCurry]]
SummaryOfRows(dayRow, run, todayIso) ==
  Committed(ProductLoop(RowFates(run.productFile), 1, EmptyAcc),
            NormalizePayments(dayRow),
            Coalesce(<<dateISOFromCol(dayRow),
                       dateISOFromName(run.statsFile.name),
                       dateISOFromName(run.productFile.name), todayIso>>),
            firstByCandidates(dayRow, GROUP_CANDS),
            firstByCandidates(dayRow, PEOPLE_CANDS))
SummaryOf(run, todayIso) ==
  SummaryOfRows(ReadStatsRows(run.statsFile)[1], run, todayIso)

\* SummaryOf of the session's files, computed once
SessionRuns ==
  {[productFile |-> p, statsFile |-> s] :
     p \in SessionProductFiles, s \in {f \in SessionStatsFiles : Len(f.rows) > 0}}
SessionSummaries ==
  [run \in SessionRuns, todayIso \in TodayChoices |-> SummaryOf(run, todayIso)]
Summary(run, todayIso) ==
  IF run \in SessionRuns /\ todayIso \in TodayChoices
  THEN SessionSummaries[run, todayIso] ELSE SummaryOf(run, todayIso)

\* a variant that stores the product counts before it looks at the payment
\* rows
StoreProducts(cur, acc) ==
  [cur EXCEPT !.unassigned = acc.ambiguous, !.ramenTotals = acc.localTotals,
              !.ramenSetTotals = acc.localSetTotals,
              !.coursePeopleEntries = acc.coursePeople]
SummaryResultPartial(run, readOk, cur, todayIso) ==
  IF ~readOk THEN [failed |-> TRUE, report |-> cur]
  ELSE IF Len(run.statsFile.rows) = 0
    THEN [failed |-> TRUE,
          report |-> StoreProducts(cur, ProductLoop(RowFates(run.productFile),
                                                    1, EmptyAcc))]
  ELSE [failed |-> FALSE, report |-> Summary(run, todayIso)]
\* a variant that leaves the manually assigned course counts in place
SummaryResultKeepingCourse(run, readOk, cur, todayIso) ==
  IF ~readOk \/ Len(run.statsFile.rows) = 0
  THEN [failed |-> TRUE, report |-> cur]
  ELSE [failed |-> FALSE,
        report |-> [Summary(run, todayIso) EXCEPT
                      !.ramenCourseTotals = cur.ramenCourseTotals]]

\* a variant that classifies the product file picked when the reads settle
\* rather than the one the run was started with
SummaryResultOfPickedFile(run, readOk, cur, todayIso) ==
  IF ~readOk \/ Len(run.statsFile.rows) = 0
  THEN [failed |-> TRUE, report |-> cur]
  ELSE [failed |-> FALSE,
        report |-> Summary([productFile |-> productFile,
                            statsFile |-> run.statsFile], todayIso)]

\* The part of makeSummary after its await: a failed read or an empty
\* payment dataset throws before any setter is called; otherwise the six
\* setters receive the run's own values.  cur is the report at that time.
SummaryResult(run, readOk, cur, todayIso) ==
  IF ~readOk \/ Len(run.statsFile.rows) = 0
  THEN [failed |-> TRUE, report |-> cur]
  ELSE [failed |-> FALSE, report |-> Summary(run, todayIso)]

\* the press of the button up to the await, while fewer than limit runs
\* await their files
StartRun(limit) ==
  IF ~productFile.picked \/ ~statsFile.picked
  THEN /\ outcome' = "missing"
       /\ UNCHANGED <<files, report, pending, edits, env>>
  ELSE /\ Len(pending) < limit
       /\ pending' = Append(pending, [productFile |-> productFile,
                                      statsFile |-> statsFile])
       /\ outcome' = "started"
       /\ UNCHANGED <<files, report, edits, env>>
MakeSummaryStart == StartRun(MaxRuns)
\* the button is pressed again while a run awaits its files
MakeSummaryStartOverlapping == StartRun(MaxOverlap)

RemoveAt(q, i) == SubSeq(q, 1, i - 1) \o SubSeq(q, i + 1, Len(q))

\* a suspended run resumes: both reads have settled (readOk: neither
\* rejected)
Settle(res) ==
  /\ SetReport(res.report)
  /\ outcome' = IF res.failed THEN "error" ELSE "committed"
  /\ edits' = IF res.failed THEN edits
              ELSE IF ramenCourseTotals # makeEmptySetTotals
                     THEN "replaced courses"
              ELSE IF edits = "edited" THEN "replaced" ELSE "clean"
MakeSummaryFinish(i, readOk) ==
  /\ i \in 1..Len(pending)
  /\ Settle(SummaryResult(pending[i], readOk, Report, today))
  /\ pending' = RemoveAt(pending, i)
  /\ UNCHANGED <<files, env>>

(***************************************************************************)
(* Picking files                                                           *)
(***************************************************************************)
OnPickProduct(f) ==
  /\ productFile' = f
  /\ outcome' = "picked"
  /\ UNCHANGED <<statsFile, report, pending, edits, env>>
OnPickStats(f) ==
  /\ statsFile' = f
  /\ outcome' = "picked"
  /\ UNCHANGED <<productFile, report, pending, edits, env>>

(***************************************************************************)
(* Manual reassignment                                                     *)
(***************************************************************************)
\* a variant that rounds the requested amount up
ClampQtyRoundedUp(amount, count) ==
  Max({0, Min({IF amount.t = "num" THEN (amount.half + 1) \div 2 ELSE count,
               count})})
\* const requested = amount ?? item.count;
\* const numeric = finite number ? Math.floor(requested) : item.count;
\* const qty = Math.max(0, Math.min(numeric, item.count));
ClampQty(amount, count) ==
  Max({0, Min({IF amount.t = "num" THEN amount.half \div 2 ELSE count, count})})

\* a variant that removes the item whatever the quantity taken
TakeItemFrom(list, index, qty) == RemoveAt(list, index + 1)
\* next.splice(index, 1) or next[index] = {...item, count: item.count - qty}
TakeFrom(list, index, qty) ==
  IF qty >= list[index + 1].count THEN RemoveAt(list, index + 1)
  ELSE [list EXCEPT ![index + 1].count = @ - qty]

\* applyAssign(index, key, asSet, amount) on the report cur
MoveQty(cur, index, key, asSet, qty) ==
  IF qty <= 0 THEN cur
  ELSE IF asSet
    THEN [cur EXCEPT !.ramenSetTotals[key] = @ + qty,
                     !.unassigned = TakeFrom(@, index, qty)]
    ELSE [cur EXCEPT !.ramenTotals[key] = @ + qty,
                     !.unassigned = TakeFrom(@, index, qty)]
applyAssign(cur, index, key, asSet, amount) ==
  IF index + 1 \notin 1..Len(cur.unassigned) THEN cur
  ELSE MoveQty(cur, index, key, asSet,
               ClampQty(amount, cur.unassigned[index + 1].count))
\* applyAssignCourse(index, key, amount)
MoveQtyToCourse(cur, index, key, qty) ==
  IF qty <= 0 THEN cur
  ELSE [cur EXCEPT !.ramenCourseTotals[key] = @ + qty,
                   !.unassigned = TakeFrom(@, index, qty)]
applyAssignCourse(cur, index, key, amount) ==
  IF index + 1 \notin 1..Len(cur.unassigned) THEN cur
  ELSE MoveQtyToCourse(cur, index, key,
                       ClampQty(amount, cur.unassigned[index + 1].count))
\* a variant that adds the first item's quantity only
assignFirstUnassignedToHanaSet(cur) ==
  IF Len(cur.unassigned) = 0 THEN cur
  ELSE [cur EXCEPT !.ramenSetTotals["hana"] = @ + cur.unassigned[1].count,
                   !.unassigned = <<>>]
\* assignAllUnassignedToHanaSet; an empty list only raises the notice
assignAllUnassignedToHanaSet(cur) ==
  IF Len(cur.unassigned) = 0 THEN cur
  ELSE [cur EXCEPT !.ramenSetTotals["hana"] =
                      @ + SumSeq([i \in 1..Len(cur.unassigned) |->
                                    cur.unassigned[i].count]),
                   !.unassigned = <<>>]

\* a handler other than makeSummary stores the report r
Edit(r) ==
  /\ SetReport(r)
  /\ edits' = IF r # Report THEN "edited" ELSE edits
  /\ UNCHANGED <<files, pending, env>>
Reassign(index, key, asSet, amount) ==
  /\ Edit(applyAssign(Report, index, key, asSet, amount))
  /\ outcome' = "assigned"
ReassignToCourse(index, key, amount) ==
  /\ Edit(applyAssignCourse(Report, index, key, amount))
  /\ outcome' = "assigned"
BulkAssignAllToDefault ==
  /\ Edit(assignAllUnassignedToHanaSet(Report))
  /\ outcome' = IF Len(unassigned) = 0 THEN "nothing" ELSE "bulk"

(***************************************************************************)
(* The date buttons                                                        *)
(***************************************************************************)
\* const d = new Date(meta.dateISO + 'T00:00:00+09:00');
\* d.setDate(d.getDate() + delta); d.toISOString().slice(0, 10)
\* toISOString throws a RangeError on an Invalid Date: <<>> stands for it.
ShiftDate(d, timeZone, delta) ==
  IF ~d.valid THEN <<>> ELSE IsoDateOf(SetDateBy(d, timeZone, delta))
ShiftedDate(isoDate, timeZone, delta) ==
  ShiftDate(ParseJst(isoDate), timeZone, delta)
\* the dates whose label and whose neighbours the calendar window holds
InWindow(isoDate) ==
  IsCalIso(isoDate) => {DayOfIso(isoDate) - k : k \in 0..3} \subseteq CalDays
SetDateISO(shifted) ==
  IF shifted = <<>>
  THEN outcome' = "threw" /\ Edit(Report)
  ELSE outcome' = "dated" /\ Edit([Report EXCEPT !.meta.dateISO = shifted])
AdjustDate(delta) ==
  /\ InWindow(meta.dateISO)
  /\ SetDateISO(ShiftedDate(meta.dateISO, zone, delta))
PreviousDay == AdjustDate(-1)
NextDay == AdjustDate(1)

(***************************************************************************)
(* Specifications                                                          *)
(***************************************************************************)
\* the six cells hold the report r
ReportIs(r) ==
  /\ unassigned = r.unassigned
  /\ ramenTotals = r.ramenTotals
  /\ ramenSetTotals = r.ramenSetTotals
  /\ ramenCourseTotals = r.ramenCourseTotals
  /\ coursePeopleEntries = r.coursePeopleEntries
  /\ meta = r.meta
InitCommon ==
  /\ zone \in Zones
  /\ today \in TodayChoices
  /\ ReportIs(InitialReport(today))
  /\ pending = <<>>
  /\ outcome = "none"
  /\ edits = "clean"

\* The session: no file picked yet; the operator picks files, starts
\* runs, reassigns and moves the date in any order.
Init == InitCommon /\ productFile = NoFile /\ statsFile = NoFile
Next ==
  \/ \E f \in SessionProductFiles : OnPickProduct(f)
  \/ \E f \in SessionStatsFiles : OnPickStats(f)
  \/ MakeSummaryStart
  \/ \E i \in 1..MaxRuns, readOk \in BOOLEAN : MakeSummaryFinish(i, readOk)
  \/ \E index \in AssignIndexes, key \in AssignKeys, asSet \in BOOLEAN,
        amount \in AssignAmounts : Reassign(index, key, asSet, amount)
  \/ \E index \in AssignIndexes, key \in AssignKeys, amount \in AssignAmounts :
        ReassignToCourse(index, key, amount)
  \/ BulkAssignAllToDefault
  \/ PreviousDay
  \/ NextDay
Spec == Init /\ [][Next]_vars

\* One classification of every file over the catalogues: the two files
\* are already picked, one of them ranging over all files within the
\* bounds.
InitWide ==
  /\ InitCommon
  /\ \/ productFile \in WideProductFiles /\ statsFile = BaseStatsFile
     \/ productFile = BaseProductFile /\ statsFile \in WideStatsFiles
NextWide ==
  \/ MakeSummaryStart
  \/ \E i \in 1..MaxRuns, readOk \in BOOLEAN : MakeSummaryFinish(i, readOk)
SpecWide == InitWide /\ [][NextWide]_vars

\* Reassignment of what one classification has stored: the report of every
\* product file over the catalogue, then the three reassignment handlers.
InitAssign ==
  /\ zone \in Zones
  /\ today \in TodayChoices
  /\ productFile \in WideProductFiles
  /\ statsFile = BaseStatsFile
  /\ ReportIs(SummaryOf([productFile |-> productFile, statsFile |-> statsFile],
                        today))
  /\ pending = <<>>
  /\ outcome = "committed"
  /\ edits = "clean"
NextAssign ==
  \/ \E index \in AssignIndexes, key \in AssignKeys, asSet \in BOOLEAN,
        amount \in AssignAmounts : Reassign(index, key, asSet, amount)
  \/ \E index \in AssignIndexes, key \in AssignKeys, amount \in AssignAmounts :
        ReassignToCourse(index, key, amount)
  \/ BulkAssignAllToDefault
SpecAssign == InitAssign /\ [][NextAssign]_vars

\* One classification of every product file of one row with a built name,
\* on a device in Japan, the reads succeeding.
InitNames ==
  /\ InitCommon
  /\ zone = 9
  /\ productFile \in NameProductFiles
  /\ statsFile = BaseStatsFile
NextNames ==
  \/ MakeSummaryStart
  \/ \E i \in 1..MaxRuns : MakeSummaryFinish(i, TRUE)
SpecNames == InitNames /\ [][NextNames]_vars

\* Overlapping runs: the button is pressed again while a run awaits its
\* files, the runs settle in either order, and the operator picks other
\* files, reassigns and moves the date meanwhile.  The device is in Japan.
\* the first item is reassigned, whole or one bowl of it
OverlapAmounts == {Omitted, Amount(3)}
InitOverlap ==
  /\ InitCommon
  /\ zone = 9
  /\ productFile \in SessionProductFiles
  /\ statsFile \in SessionStatsFiles
NextOverlap ==
  \/ \E f \in SessionProductFiles : OnPickProduct(f)
  \/ \E f \in SessionStatsFiles : OnPickStats(f)
  \/ MakeSummaryStartOverlapping
  \/ \E i \in 1..MaxOverlap, readOk \in BOOLEAN : MakeSummaryFinish(i, readOk)
  \/ \E key \in AssignKeys, asSet \in BOOLEAN, amount \in OverlapAmounts :
        Reassign(0, key, asSet, amount)
  \/ \E key \in AssignKeys, amount \in OverlapAmounts :
        ReassignToCourse(0, key, amount)
  \/ BulkAssignAllToDefault
  \/ PreviousDay
  \/ NextDay
SpecOverlap == InitOverlap /\ [][NextOverlap]_vars

(***************************************************************************)
(* Properties                                                              *)
(***************************************************************************)
\* the bowls counted on all ramen keys, plain, set and course together
Bowls(r) == ramenTotalCount(r.ramenTotals, r.ramenSetTotals, r.ramenCourseTotals)
\* the request asks for the item's whole remaining quantity or more, or
\* names no amount
AsksAll(amount, remaining) ==
  amount.t = "omitted" \/ (amount.t = "num" /\ amount.half >= 2 * remaining)
ReassignContract(before, after, index, amount) ==
  /\ Len(after.unassigned) = Len(before.unassigned)
       => after.unassigned[index + 1].count <= before.unassigned[index + 1].count
  /\ Bowls(after) - Bowls(before) <= before.unassigned[index + 1].count
  /\ AsksAll(amount, before.unassigned[index + 1].count)
       => after.unassigned = RemoveAt(before.unassigned, index + 1)

\* C1: every Reassign or ReassignToCourse on an item of the unassigned
\* list leaves the item's remaining quantity no larger, moves no more than
\* the remaining quantity, and, when the amount is omitted or at least the
\* remaining quantity, removes the item from the list.
C1_ReassignContract ==
  [][\A index \in AssignIndexes, key \in AssignKeys, amount \in AssignAmounts :
       (/\ index < Len(unassigned)
        /\ \/ \E asSet \in BOOLEAN : Reassign(index, key, asSet, amount)
           \/ ReassignToCourse(index, key, amount))
         => ReassignContract(Report, Report', index, amount)]_vars

BulkContract(before, after) ==
  IF Len(before.unassigned) = 0 THEN after = before
  ELSE /\ after.unassigned = <<>>
       /\ after.ramenSetTotals["hana"] =
            before.ramenSetTotals["hana"]
              + SumSeq([i \in 1..Len(before.unassigned) |->
                          before.unassigned[i].count])
       /\ \A k \in RamenKeySet \ {"hana"} :
            after.ramenSetTotals[k] = before.ramenSetTotals[k]
       /\ after.ramenTotals = before.ramenTotals
       /\ after.ramenCourseTotals = before.ramenCourseTotals
       /\ after.coursePeopleEntries = before.coursePeopleEntries
       /\ after.meta = before.meta

\* C2: BulkAssignAllToDefault on a list with items empties the list and
\* adds the sum of the items' remaining quantities to the set count of
\* hana, changing nothing else; on an empty list it changes nothing.
C2_BulkAssign == [][BulkAssignAllToDefault => BulkContract(Report, Report')]_vars
\* the two items of the file (1 and 2 bowls) were moved at once
C2_BulkActed ==
  /\ outcome = "bulk"
  /\ productFile.rows = <<5, 6>>
  /\ unassigned = <<>>
  /\ ramenSetTotals["hana"] = 3

\* the value of the first alias, in the list's order, whose column holds a
\* positive value; 0 when no alias has one
RECURSIVE FirstPositiveAlias(_, _, _)
PositiveOrNext(row, aliases, k, value) ==
  IF value > 0 THEN value ELSE FirstPositiveAlias(row, aliases, k + 1)
FirstPositiveAlias(row, aliases, k) ==
  IF k > Len(aliases) THEN 0
  ELSE PositiveOrNext(row, aliases, k, firstByCandidates(row, <<aliases[k]>>))
\* the sum of the columns whose header is an alias of the channel
ChannelSum(row, key) ==
  SumSeq([j \in 1..Len(row) |->
            IF aliasMapGet(norm(row[j].key)) = key THEN toNum(row[j].val) ELSE 0])
TotalContract(row, m) ==
  /\ m.payments["total"] = FirstPositiveAlias(row, PAYMENT_ALIASES["total"], 1)
  /\ \A k \in PaymentKeySet \ {"total"} : m.payments[k] = ChannelSum(row, k)
  /\ \A e \in 1..Len(m.otherPayments) :
       norm(m.otherPayments[e].label) \notin NormalizedAliases["total"]

\* C3: after a classification, payments.total is the value of the first
\* alias of the total list whose column is positive (0 when none is); the
\* columns of the total aliases add to no other channel and are no other
\* payment.
C3_TotalFromFirstAlias ==
  outcome = "committed" => TotalContract(ReadStatsRows(statsFile)[1], meta)
\* the row holds the last alias (999) before the first alias ("Y1,234")
C3_TwoTotalColumns ==
  /\ outcome = "committed"
  /\ statsFile.rows = << <<4, 1>> >>
  /\ meta.payments["total"] = 1234

\* the file without its course-booking rows, and the number of those rows
IsCourseRow(r) == FateTable[r].kind = "course"
WithoutCourseRows(file) ==
  [file EXCEPT !.rows = FilterIdx(file.rows,
                                  LAMBDA i : ~IsCourseRow(file.rows[i]), 1)]
SameRamen(r, acc) ==
  /\ r.ramenTotals = acc.localTotals
  /\ r.ramenSetTotals = acc.localSetTotals
  /\ r.ramenCourseTotals = acc.localCourseTotals
CourseContract(file, r) ==
  /\ Len(r.coursePeopleEntries) =
       Cardinality({i \in 1..Len(file.rows) : IsCourseRow(file.rows[i])})
  /\ SameRamen(r, ProductLoop(RowFates(WithoutCourseRows(file)), 1, EmptyAcc))

\* C4: after a classification, the ramen counts (plain, set, course) are
\* those of the file without its course-booking rows, and the list of
\* course entries has one entry per course-booking row.
C4_CourseRowsNotRamen == outcome = "committed" => CourseContract(productFile, Report)
\* a dinner course named after hana (x2) next to a plain hana row (x2)
C4_CourseNamedAfterRamen ==
  /\ outcome = "committed"
  /\ productFile.rows = <<7, 1>>
  /\ FateTable[7].kind = "course" /\ FateTable[7].key = "hana"
  /\ Len(coursePeopleEntries) = 1
  /\ ramenTotals["hana"] = 2

\* the sections of the report that have content, each as one text
NonEmpty(q) == FilterIdx(q, LAMBDA i : Len(q[i]) > 0, 1)
JoinEach(sections) == [i \in 1..Len(sections) |-> Join(sections[i], <<10>>)]
Sections ==
  NonEmpty(<< <<jpDateLabel(meta.dateISO, zone)>>,
              PaymentLines(meta),
              GroupPeopleLines(meta),
              IF Bowls(Report) > 0
                THEN RamenLines(ramenTotals, ramenSetTotals, ramenCourseTotals)
                ELSE <<>>,
              SideLines(meta),
              CourseLines(coursePeopleEntries),
              IF Len(unassigned) > 0 THEN <<UnassignedLine(Len(unassigned))>>
                ELSE <<>> >>)
\* no empty line at the start or at the end, no two empty lines in a row
NoStrayBlank(text) ==
  /\ Len(text) > 0 /\ text[1] # 10 /\ text[Len(text)] # 10
  /\ \A i \in 1..(Len(text) - 2) :
       ~(text[i] = 10 /\ text[i + 1] = 10 /\ text[i + 2] = 10)

\* C5: the report text has no empty line at its start or end and no two
\* empty lines in a row, and its sections with content follow each other
\* separated by exactly one empty line.
C5_Layout ==
  /\ NoStrayBlank(output)
  /\ output = Join(JoinEach(Sections), <<10, 10>>)

\* the file without the rows whose quantity is zero, negative or missing
HasPositiveQty(r) ==
  firstByCandidates(ProductRowCatalogue[r], PRODUCT_QTY_CANDS) > 0
PositiveRows(file) ==
  [file EXCEPT !.rows = FilterIdx(file.rows,
                                  LAMBDA i : HasPositiveQty(file.rows[i]), 1)]
SameProducts(r, acc) ==
  /\ SameRamen(r, acc)
  /\ r.unassigned = acc.ambiguous
  /\ r.coursePeopleEntries = acc.coursePeople
  /\ r.meta.yokubariCurry = acc.yokubariCurry
  /\ r.meta.pattyCurry = acc.pattyCurry

\* C6: after a classification, the ramen counts, the side-dish counts, the
\* course entries and the unassigned list are those of the file without
\* its rows of zero, negative or missing quantity.
C6_SkipNonPositive ==
  outcome = "committed"
    => SameProducts(Report, ProductLoop(RowFates(PositiveRows(productFile)),
                                        1, EmptyAcc))

\* the date of the report moves by delta calendar days
DateMovedBy(delta) ==
  (IsCalIso(meta.dateISO) /\ DayOfIso(meta.dateISO) + delta \in CalDays)
    => meta'.dateISO = IsoOfDay(DayOfIso(meta.dateISO) + delta)

\* C7: the next-day button moves the report date to the following calendar
\* day and the previous-day button to the preceding one.
C7_DayStep ==
  [][(NextDay => DateMovedBy(1)) /\ (PreviousDay => DateMovedBy(-1))]_vars

\* C8: a run started with a file missing, and a run whose reads fail or
\* whose payment file has no row, is reported as a failure and leaves the
\* six cells of the report as they are.
C8_FailedRunStoresNothing ==
  [][/\ (MakeSummaryStart /\ (~productFile.picked \/ ~statsFile.picked))
         => (outcome' = "missing" /\ UNCHANGED <<report, pending>>)
     /\ \A i \in 1..MaxRuns, readOk \in BOOLEAN :
          (MakeSummaryFinish(i, readOk)
             /\ (~readOk \/ Len(pending[i].statsFile.rows) = 0))
            => (outcome' = "error" /\ UNCHANGED report)]_vars
\* a run has failed while the report of an earlier run is on screen
C8_FailedAfterStored ==
  /\ outcome = "error"
  /\ meta.payments["total"] > 0

\* C9: a run that stores its result stores what the same files give from
\* the initial report, whatever the cells held before.
C9_RunReplacesReport ==
  [][\A i \in 1..MaxRuns :
       (MakeSummaryFinish(i, TRUE) /\ outcome' = "committed")
         => Report' = SummaryResult(pending[i], TRUE, InitialReport(today),
                                    today).report]_vars
\* a run has replaced a report that carried manually assigned course
\* counts; they are back at zero
C9_ReplacedEdits ==
  /\ outcome = "committed"
  /\ edits = "replaced courses"
  /\ ramenCourseTotals = makeEmptySetTotals

\* the columns that qualify as other payments, in the row's order
Qualifies(col) ==
  /\ toNum(col.val) > 0
  /\ aliasMapGet(norm(col.key)) = NoKey
  /\ norm(col.key) \notin ignoreSet
AsPayments(cols) ==
  [i \in 1..Len(cols) |-> [label |-> cols[i].key, amount |-> toNum(cols[i].val)]]
Qualifying(row) == AsPayments(FilterIdx(row, LAMBDA j : Qualifies(row[j]), 1))
\* a is b with some members left out
RECURSIVE IsSubSeq(_, _)
IsSubSeq(a, b) ==
  IF a = <<>> THEN TRUE
  ELSE IF b = <<>> THEN FALSE
  ELSE IF Head(a) = Head(b) THEN IsSubSeq(Tail(a), Tail(b))
  ELSE IsSubSeq(a, Tail(b))

\* C10: after a classification, every other payment comes from a column of
\* positive value whose header is no channel alias and is not ignored; its
\* label is the raw header and the entries keep the columns' order.
C10_OtherPayments ==
  outcome = "committed"
    => IsSubSeq(meta.otherPayments, Qualifying(ReadStatsRows(statsFile)[1]))

\* every count of every ramen key is a natural number
CountsInNat(r) ==
  \A k \in RamenKeySet :
    /\ r.ramenTotals[k] \in Nat
    /\ r.ramenSetTotals[k] \in Nat
    /\ r.ramenCourseTotals[k] \in Nat
\* every count of every ramen key is zero
CountsAreZero(r) ==
  /\ r.ramenTotals = makeEmptyTotals
  /\ r.ramenSetTotals = makeEmptySetTotals
  /\ r.ramenCourseTotals = makeEmptySetTotals

\* C11: in every state the plain, set and course count of each ramen key
\* is a non-negative integer, and before any handler has run all of them
\* are zero.
C11_CountsNonNegative ==
  /\ CountsInNat(Report)
  /\ outcome = "none" => CountsAreZero(Report)

\* the rules of the product classifier in their order of priority, and
\* when each of them matches a row
RULE_ORDER ==
  <<"skip", "excluded", "forced", "side", "course", "variant", "fallback">>
RuleMatches(rule, name, count, category) ==
  CASE rule = "skip" -> count <= 0
    [] rule = "excluded" ->
         \E k \in 1..Len(EXCLUDED_PRODUCT_REGEXPS) :
           TestI(EXCLUDED_PRODUCT_REGEXPS[k], name)
    [] rule = "forced" ->
         TestI(FORCE_AMBIG_SET_HANA_GEKKA, name) /\ TestI(SET_WORD_PATTERN, name)
    [] rule = "side" -> isYokubariCurry(name) \/ isPattyCurry(name)
    [] rule = "course" -> isCourse(name, category)
    [] rule = "variant" -> guessRamenKey(name) # NoKey
    [] rule = "fallback" -> isRamenish(name)
MatchingRules(name, count, category) ==
  {k \in 1..Len(RULE_ORDER) : RuleMatches(RULE_ORDER[k], name, count, category)}
EarliestOf(matching) ==
  IF matching = {} THEN "none" ELSE RULE_ORDER[Min(matching)]
\* the one bucket a row adds to under a rule
OneBucket(acc, rule, name, count, category) ==
  CASE rule \in {"forced", "fallback"} ->
         [acc EXCEPT !.ambiguous = Append(@, [name |-> name, count |-> count])]
    [] rule = "side" /\ isYokubariCurry(name) ->
         [acc EXCEPT !.yokubariCurry = @ + count]
    [] rule = "side" /\ ~isYokubariCurry(name) ->
         [acc EXCEPT !.pattyCurry = @ + count]
    [] rule = "course" ->
         [acc EXCEPT !.coursePeople = Append(@, CourseEntry(name, count))]
    [] rule = "variant" /\ isSet(name, category) ->
         [acc EXCEPT !.localSetTotals[guessRamenKey(name)] = @ + count]
    [] rule = "variant" /\ ~isSet(name, category) ->
         [acc EXCEPT !.localTotals[guessRamenKey(name)] = @ + count]
    [] OTHER -> acc
ByEarliestRule(acc, name, count, category) ==
  OneBucket(acc, EarliestOf(MatchingRules(name, count, category)),
            name, count, category)
RowByEarliestRule(acc, row) ==
  ByEarliestRule(acc, firstKeyStr(row, PRODUCT_NAME_CANDS),
                 firstByCandidates(row, PRODUCT_QTY_CANDS),
                 firstKeyStr(row, PRODUCT_CATEGORY_CANDS))
RECURSIVE RowsByEarliestRule(_, _, _)
RowsByEarliestRule(rows, i, acc) ==
  IF i > Len(rows) THEN acc
  ELSE RowsByEarliestRule(rows, i + 1, RowByEarliestRule(acc, rows[i]))

\* C12: after a classification, the counts, the course entries and the
\* unassigned list are what the rows give when each row adds to the one
\* bucket of the earliest rule it matches, in the order skip, exclusion,
\* forced ambiguity, side dish, course, ramen key, fallback ambiguity.
C12_EarliestRuleOnly ==
  outcome = "committed"
    => SameProducts(Report,
                    RowsByEarliestRule(ReadProductRows(productFile), 1, EmptyAcc))

\* the amount a call asks for, floored and clamped to [0, remaining]; a
\* call that names no amount asks for the remaining quantity
FlooredAndClamped(amount, remaining) ==
  Max({0, Min({IF amount.t = "num" THEN amount.half \div 2 ELSE remaining,
               remaining})})
\* the call can move nothing: no item at the index, or nothing asked for
MovesNothing(index, amount) ==
  \/ index + 1 \notin 1..Len(unassigned)
  \/ /\ amount.t \in {"num", "omitted"}
     /\ FlooredAndClamped(amount, unassigned[index + 1].count) <= 0

\* C13: a Reassign or ReassignToCourse whose index names no item, or whose
\* amount floored and clamped to [0, remaining quantity] is not positive,
\* leaves the unassigned list and every count as they are.
C13_NothingToMove ==
  [][\/ UNCHANGED report
     \/ \A index \in AssignIndexes, key \in AssignKeys, amount \in AssignAmounts :
          ~(/\ MovesNothing(index, amount)
            /\ \/ \E asSet \in BOOLEAN : Reassign(index, key, asSet, amount)
               \/ ReassignToCourse(index, key, amount))]_vars
\* calls that moved nothing were made on an item of two bowls
C13_CalledInVain ==
  /\ outcome = "assigned"
  /\ edits = "clean"
  /\ Len(unassigned) = 1
  /\ unassigned[1].count = 2
  /\ CountsAreZero(Report)

\* the text rendered from the cells on a device of time zone z, and the
\* first line of a text
RenderedIn(z) ==
  renderOutput(meta, ramenTotals, ramenSetTotals, ramenCourseTotals,
               coursePeopleEntries, Len(unassigned), z)
FirstLineEnd(text) ==
  IF \E i \in 1..Len(text) : text[i] = 10
  THEN Min({i \in 1..Len(text) : text[i] = 10}) - 1
  ELSE Len(text)
FirstLine(text) == SubSeq(text, 1, FirstLineEnd(text))

\* C14: the report text is a function of the cells alone (the same text in
\* every time zone of the device), and its first line is the label of the
\* calendar date held in meta.dateISO.
C14_RenderPure ==
  /\ \A z \in Zones : RenderedIn(z) = output
  /\ IsCalIso(meta.dateISO)
       => FirstLine(output) = LabelOfDay(CalOfDay(DayOfIso(meta.dateISO)))

\* the text holds the word
Contains(text, word) ==
  \E i \in 1..(Len(text) - Len(word) + 1) :
    SubSeq(text, i, i + Len(word) - 1) = word
\* the name and the category of the first row of a product file
NameIn(file) == firstKeyStr(ReadProductRows(file)[1], PRODUCT_NAME_CANDS)
CategoryIn(file) == firstKeyStr(ReadProductRows(file)[1], PRODUCT_CATEGORY_CANDS)
\* the bowls counted on one ramen key
BowlsOn(r, k) == r.ramenTotals[k] + r.ramenSetTotals[k] + r.ramenCourseTotals[k]
\* all counted bowls are set bowls when marked, plain bowls when not
SetIffMarked(r, marked) ==
  /\ r.ramenCourseTotals = makeEmptySetTotals
  /\ IF marked THEN r.ramenTotals = makeEmptyTotals
     ELSE r.ramenSetTotals = makeEmptySetTotals
CompoundContract(name, category, r) ==
  /\ Contains(name, <<38634, 26376, 33457>>)
       => BowlsOn(r, "setsugekka") = 2 /\ Bowls(r) = 2
  /\ (Contains(name, <<38634, 26376>>) \/ Contains(name, <<26376, 33457>>))
       => \A k \in {"hana", "tsuki", "yuki"} : BowlsOn(r, k) = 0
  /\ (Contains(name, <<27703, 33457>>) \/ Contains(name, <<33457, 12371, 12405, 12428>>))
       => BowlsOn(r, "hana") = 0
  /\ SetIffMarked(r, Contains(name, <<12475, 12483, 12488>>) \/ Contains(category, <<12475, 12483, 12488>>))

\* C15: after the classification of one row of two servings, a name
\* holding setsugekka counts on setsugekka only; a name holding setsugetsu
\* or gekka counts on none of hana, tsuki, yuki; a name holding hyouka or
\* hana-coffret does not count on hana; and the bowls are set bowls when
\* the name or the category holds the set word, plain bowls otherwise.
C15_CompoundFirst ==
  outcome = "committed"
    => CompoundContract(NameIn(productFile), CategoryIn(productFile), Report)
\* a setsugekka set was counted as two set bowls of setsugekka
C15_SetsugekkaSet ==
  /\ outcome = "committed"
  /\ NameIn(productFile) = <<38634, 26376, 33457, 12475, 12483, 12488>>
  /\ ramenSetTotals["setsugekka"] = 2
  /\ Bowls(Report) = 2

\* the quantity still on the unassigned list
Outstanding(r) ==
  SumSeq([i \in 1..Len(r.unassigned) |-> r.unassigned[i].count])
\* the bucket of the key gained exactly what left the list, and nothing
\* else changed
MovedExactly(before, after, bucket, key, moved) ==
  after = [[before EXCEPT !.unassigned = after.unassigned]
             EXCEPT ![bucket][key] = @ + moved]
MovedTo(before, after, bucket, key) ==
  MovedExactly(before, after, bucket, key,
               Outstanding(before) - Outstanding(after))

\* C16: every reassignment and bulk assignment keeps the sum of the
\* quantities on the unassigned list and of all plain, set and course
\* counts; a Reassign adds what it takes from the list to the plain or the
\* set count of the chosen key and a ReassignToCourse to its course count,
\* and to nothing else.
C16_Conservation ==
  [][/\ Outstanding(Report') + Bowls(Report') = Outstanding(Report) + Bowls(Report)
     /\ \A key \in AssignKeys :
          /\ \A asSet \in BOOLEAN :
               \/ MovedTo(Report, Report',
                          IF asSet THEN "ramenSetTotals" ELSE "ramenTotals", key)
               \/ ~(\E index \in AssignIndexes, amount \in AssignAmounts :
                      Reassign(index, key, asSet, amount))
          /\ \/ MovedTo(Report, Report', "ramenCourseTotals", key)
             \/ ~(\E index \in AssignIndexes, amount \in AssignAmounts :
                    ReassignToCourse(index, key, amount))]_vars
\* one bowl of an item of two was moved to the plain count of hana
C16_PartlyMoved ==
  /\ outcome = "assigned"
  /\ productFile.rows = <<6>>
  /\ Len(unassigned) = 1 /\ unassigned[1].count = 1
  /\ ramenTotals["hana"] = 1
  /\ Bowls(Report) = 1

\* the run awaiting at place i settles and the six cells hold its whole
\* result, computed from the files it was started with
StoresWholeRun(i) ==
  /\ pending' = RemoveAt(pending, i)
  /\ Len(pending[i].statsFile.rows) > 0
  /\ Report' = Summary(pending[i], today)
\* a date button stored the shifted date and nothing else changed
DateMovedTo(shifted) ==
  shifted # <<>> /\ Report' = [Report EXCEPT !.meta.dateISO = shifted]
\* one reassignment, bulk assignment or date button acted on the cells
OneHandlerActed ==
  \/ Report' = assignAllUnassignedToHanaSet(Report)
  \/ /\ InWindow(meta.dateISO)
     /\ \E delta \in {-1, 1} : DateMovedTo(ShiftedDate(meta.dateISO, zone, delta))
  \/ \E index \in AssignIndexes, key \in AssignKeys, amount \in AssignAmounts :
       \/ Report' = applyAssignCourse(Report, index, key, amount)
       \/ \E asSet \in BOOLEAN : Report' = applyAssign(Report, index, key, asSet, amount)

====
